---- MODULE Spec2Model ----
(***************************************************************************)
(* Salted joins (ons-spark, spark-concepts/salted_joins): the PySpark      *)
(* cells of the notebook, run in order as a state machine.  A DataFrame is *)
(* a record [columns, rows]: columns is the ordered list of column names,  *)
(* rows a sequence of records keyed by column name.  Row order carries no  *)
(* meaning in Spark; results are compared as multisets (RowBag).           *)
(* A column value is Null or Some(v).                                      *)
(*                                                                         *)
(* Specifications:                                                         *)
(*   Spec            the cells on small DataFrames, every draw of F.rand   *)
(*   SpecExample     the cells on the example's ten million rows           *)
(*   SpecSeeded      the cells run twice, F.rand decided by its seed       *)
(*   SpecRaising     the cells with what Spark raises and engine failures  *)
(*   SpecAdvisory    Spec with the grouped count of join_col before it     *)
(*   SpecDiagnostic  the grouped count of join_col alone                   *)
(*   SpecConcurrent  two runs of the cells, their steps interleaved        *)
(*   SpecOuter       the cells with a right or a full outer join           *)
(*   SpecLeft        the cells with the left join of the notebook only     *)
(*   SpecAnyOrder    the cells in any order their names allow              *)
(*   SpecKeys        the cells on keys that hold the delimiter or digits   *)
(*   SpecSparklyr    the sparklyr cells of the notebook (concat_ws)        *)
(*   SpecUnion       the union notebook: add_empty_columns, select, union  *)
(*   SpecRescue      the cost_group cell of the PySpark and sparklyr code  *)
(***************************************************************************)
EXTENDS Integers, Sequences, FiniteSets, TLC

\* ---------------------------------------------------------------- bounds
MaxSkewedRows == 2
MaxSmallRows == 2
MaxSaltCount == 2
\* F.rand() draws a double in [0, 1): modelled as a fraction <<k, RandSteps>>
\* (k / RandSteps), k in 0..RandSteps-1; on the full-size example as <<k, ExampleRandSteps>>
RandSteps == 3
ExampleRandSteps == 10

\* ---------------------------------------------------------------- values
Null == <<>>
Some(v) == <<v>>

Keys == {"A", "B"}
KeyDom == {Some(k) : k \in Keys} \cup {Null}
NumberDom == {1, 2}
\* The join types of DataFrame.join used on the salted key
JoinTypes == {"inner", "left"}

NoDF == [columns |-> <<>>, rows |-> <<>>]

\* ------------------------------------------------- column expressions
\* A Column evaluated on a DataFrame is the sequence of its values, one per row.
col(df, name) == [i \in DOMAIN df.rows |-> df.rows[i][name]]

lit(df, v) == [i \in DOMAIN df.rows |-> Some(v)]

\* a draw that may be 1.0 itself
RandDrawsInclusive(n) == [1..n -> {<<k, RandSteps>> : k \in 0..RandSteps}]

\* F.rand(seed): one draw in [0, 1) per row
RandDraws(n) == [1..n -> {<<k, RandSteps>> : k \in 0..(RandSteps - 1)}]

\* rounding up, and rounding to the nearest, in place of F.floor
ceil_rand_times(draws, n) ==
    [i \in DOMAIN draws |-> Some((draws[i][1] * n + draws[i][2] - 1) \div draws[i][2])]

round_rand_times(draws, n) ==
    [i \in DOMAIN draws |-> Some((2 * draws[i][1] * n + draws[i][2]) \div (2 * draws[i][2]))]

\* F.floor(F.rand(seed_no) * salt_count): floor(k / steps * n) as a bigint
floor_rand_times(draws, n) == [i \in DOMAIN draws |-> Some((draws[i][1] * n) \div draws[i][2])]

\* implicit cast of a bigint column value to string inside concat
CastString(x) == IF x = Null THEN Null ELSE Some(ToString(x[1]))

\* a concatenation that leaves the delimiter out
concat3_without_delimiter(a, b, c) ==
    IF a = Null \/ b = Null \/ c = Null THEN Null ELSE Some(a[1] \o c[1])

\* a concatenation that skips null inputs instead of returning null
concat3_skip_null(a, b, c) ==
    IF a = Null THEN c ELSE IF c = Null THEN a ELSE Some(a[1] \o b[1] \o c[1])

\* F.concat of three values: null as soon as one input is null
concat3(a, b, c) == IF a = Null \/ b = Null \/ c = Null THEN Null ELSE Some(a[1] \o b[1] \o c[1])

\* F.concat(c1, c2, c3) on columns; the third column holds bigints
concat(c1, c2, c3) == [i \in DOMAIN c1 |-> concat3(c1[i], c2[i], CastString(c3[i]))]

\* ------------------------------------------------ DataFrame operations
HasColumn(df, name) == \E i \in DOMAIN df.columns : df.columns[i] = name

ColumnSet(df) == {df.columns[i] : i \in DOMAIN df.columns}

\* a range that holds 1..n
rangeFromOne(n) == [columns |-> <<"id">>, rows |-> [i \in 1..n |-> [id |-> Some(i)]]]

\* spark.range(n): one bigint column id holding 0..n-1
range(n) == [columns |-> <<"id">>, rows |-> [i \in 1..n |-> [id |-> Some(i - 1)]]]

\* df.withColumn(name, values): adds the column, or replaces it in place
withColumn(df, name, values) ==
    [columns |-> IF HasColumn(df, name) THEN df.columns ELSE Append(df.columns, name),
     rows |-> [i \in DOMAIN df.rows |->
                 [c \in ColumnSet(df) \cup {name} |->
                    IF c = name THEN values[i] ELSE df.rows[i][c]]]]

\* pairing the rows by position instead of every row with every row
crossJoinByPosition(df, other) ==
    LET n == IF Len(df.rows) < Len(other.rows) THEN Len(df.rows) ELSE Len(other.rows)
    IN  [columns |-> df.columns \o other.columns,
         rows |-> [k \in 1..n |-> df.rows[k] @@ other.rows[k]]]

\* df.crossJoin(other): every pair of rows, columns of df then columns of other
crossJoin(df, other) ==
    LET n2 == Len(other.rows)
    IN  [columns |-> df.columns \o other.columns,
         rows |-> [k \in 1..(Len(df.rows) * n2) |->
                     df.rows[((k - 1) \div n2) + 1] @@ other.rows[((k - 1) % n2) + 1]]]

\* a drop that drops nothing
dropNothing(df, names) == df

\* df.drop(*names)
drop(df, names) ==
    [columns |-> SelectSeq(df.columns, LAMBDA c : c \notin names),
     rows |-> [i \in DOMAIN df.rows |->
                 [c \in ColumnSet(df) \ names |-> df.rows[i][c]]]]

NullRow(names) == [c \in names |-> Null]

\* equi-join condition on the column `on`: null never equals anything
KeysMatch(l, r, on) == l[on] # Null /\ r[on] # Null /\ l[on] = r[on]

\* a join that never keeps an unmatched left row
JoinLeftRowMatchedOnly(l, other, on, how) ==
    LET matches == SelectSeq(other.rows, LAMBDA r : l[on] # Null /\ r[on] # Null /\ l[on] = r[on])
    IN  [j \in DOMAIN matches |-> l @@ matches[j]]

\* a join that pairs a left row with every row of the other side, whatever its key
JoinLeftRowAnyKey(l, other, on, how) ==
    [j \in DOMAIN other.rows |-> l @@ other.rows[j]]

\* output rows of one left row: its matches, or for a left/outer join the row
\* itself with nulls in the other side's columns
JoinLeftRow(l, other, on, how) ==
    LET matches == SelectSeq(other.rows, LAMBDA r : KeysMatch(l, r, on))
    IN  IF matches # <<>>
        THEN [j \in DOMAIN matches |-> l @@ matches[j]]
        ELSE IF how \in {"left", "outer"}
             THEN << l @@ NullRow(ColumnSet(other) \ {on}) >>
             ELSE << >>

RECURSIVE JoinLeftRows(_, _, _, _, _)
JoinLeftRows(df, other, on, how, i) ==
    IF i > Len(df.rows) THEN << >>
    ELSE JoinLeftRow(df.rows[i], other, on, how) \o JoinLeftRows(df, other, on, how, i + 1)

\* a join that never keeps an unmatched right row
JoinRightOnlyDropped(df, other, on, how) == << >>

\* rows of the right side that no left row matches, kept by a right/outer join
JoinRightOnly(df, other, on, how) ==
    IF how \in {"right", "outer"}
    THEN LET unmatched == SelectSeq(other.rows,
                              LAMBDA r : \A i \in DOMAIN df.rows : ~KeysMatch(df.rows[i], r, on))
         IN  [j \in DOMAIN unmatched |-> unmatched[j] @@ NullRow(ColumnSet(df) \ {on})]
    ELSE << >>

\* df.join(other, on=on, how=how): the key column first, then the other
\* columns of df, then the other columns of other
join(df, other, on, how) ==
    [columns |-> <<on>> \o SelectSeq(df.columns, LAMBDA c : c # on)
                        \o SelectSeq(other.columns, LAMBDA c : c # on),
     rows |-> JoinLeftRows(df, other, on, how, 1) \o JoinRightOnly(df, other, on, how)]

\* df.count()
count(df) == Len(df.rows)

\* df.groupBy(names).count(): group key (the row cut to names) -> number of rows
Project(row, names) == [c \in names |-> row[c]]

groupByCount(df, names) ==
    LET groups == {Project(df.rows[i], names) : i \in DOMAIN df.rows}
    IN  [g \in groups |-> Cardinality({i \in DOMAIN df.rows : Project(df.rows[i], names) = g})]

\* the multiset of rows of a DataFrame
RowBag(df) == groupByCount(df, ColumnSet(df))

\* ------------------------------------------------------------ the cells
\* salting the skewed side with a salt count written out instead of salt_count
SaltSkewedFixedCount(df, n, draws) ==
    withColumn(df, "salted_col",
               concat(col(df, "join_col"), lit(df, "-"), floor_rand_times(draws, MaxSaltCount)))

\* skewed_df.withColumn("salted_col", F.concat(F.col("join_col"), F.lit("-"),
\*                                      F.floor(F.rand(seed_no) * salt_count)))
SaltSkewed(df, n, draws) ==
    withColumn(df, "salted_col",
               concat(col(df, "join_col"), lit(df, "-"), floor_rand_times(draws, n)))

\* salting the small side with one salt index only, without the cross join
SaltSmallOneIndex(df, salts) ==
    drop(withColumn(df, "salted_col",
                    concat(col(df, "join_col"), lit(df, "-"), [i \in DOMAIN df.rows |-> Some(0)])),
         {"id", "join_col"})

\* small_df.crossJoin(salt_df).withColumn("salted_col", F.concat(join_col, "-", id))
\*                            .drop("id", "join_col")
SaltSmall(df, salts) ==
    LET crossed == crossJoin(df, salts)
    IN  drop(withColumn(crossed, "salted_col",
                        concat(col(crossed, "join_col"), lit(crossed, "-"), col(crossed, "id"))),
             {"id", "join_col"})

\* ---------------------------------------------------------------- state
VARIABLES
    skewed_df,        \* the large DataFrame (id, join_col), later with salted_col
    small_df,         \* the mapping DataFrame (join_col, number_col)
    how,              \* the join type of both joins
    salt_count,
    joined_df,        \* the direct join on join_col
    salt_df,
    small_df_salted,
    salted_join_df,   \* the join on salted_col
    pc,
    key_type,         \* the data type of join_col in both DataFrames
    seed_no,          \* the seed given to F.rand
    partitions,       \* the number of partitions skewed_df is held in
    rand_values,      \* the draws F.rand has produced, by <<seed, partitions>>
    previous,         \* what the previous run of the cells produced
    skew_profile,     \* the DataFrame of the grouped count of join_col
    job_description,  \* the job description of the SparkContext
    df1, df2, df3,    \* the DataFrames of the union notebook
    col_dict,         \* column name and type of every column of df1, df2, df3
    col_order,        \* the column order of the union
    df_joined,        \* the union of df1, df2, df3
    rescue            \* the rescue DataFrame of the PySpark and of the sparklyr session

vars == <<skewed_df, small_df, how, salt_count, joined_df, salt_df,
          small_df_salted, salted_join_df, pc,
          key_type, seed_no, partitions, rand_values, previous, skew_profile,
          job_description, df1, df2, df3, col_dict, col_order, df_joined, rescue>>

\* the names of the other notebooks, which the cells of the salted join
\* neither read nor write
notebooks == <<df1, df2, df3, col_dict, col_order, df_joined, rescue>>

\* what the cells of the salted join neither read nor write
run_vars == <<key_type, seed_no, partitions, rand_values, previous, skew_profile>>

NoRun == [seed_no |-> Null, partitions |-> Null, skewed_df |-> NoDF, salted_join_df |-> NoDF]

NoProfile == [shown |-> FALSE, table |-> << >>]

\* the other notebooks have not been run
NotebooksNotRun ==
    /\ df1 = NoDF
    /\ df2 = NoDF
    /\ df3 = NoDF
    /\ col_dict = << >>
    /\ col_order = << >>
    /\ df_joined = NoDF
    /\ rescue = << >>

\* one run of the cells from the start: string keys, seed_no = 123, nothing
\* drawn, shown or described yet
InitRun ==
    /\ key_type = "string"
    /\ seed_no = 123
    /\ partitions = 1
    /\ rand_values = << >>
    /\ previous = NoRun
    /\ skew_profile = NoProfile
    /\ job_description = Null

\* datasets the cells can be run on: ids 0..n-1 with any key per id on the
\* skewed side; any rows (join_col, number_col) on the small side, listed in
\* one fixed order since row order carries no meaning
SkewedInputs ==
    UNION {{withColumn(range(n), "join_col", ks) : ks \in [1..n -> KeyDom]} : n \in 0..MaxSkewedRows}

SmallRowDom == {[join_col |-> k, number_col |-> Some(v)] : k \in KeyDom, v \in NumberDom}

SmallRowRank(r) ==
    (IF r.join_col = Null THEN 0 ELSE IF r.join_col = Some("A") THEN 1 ELSE 2) * 10 + r.number_col[1]

SmallInputs ==
    UNION {{[columns |-> <<"join_col", "number_col">>, rows |-> rs] :
              rs \in {s \in [1..n -> SmallRowDom] :
                        \A i \in 1..(n - 1) : SmallRowRank(s[i]) <= SmallRowRank(s[i + 1])}} :
           n \in 0..MaxSmallRows}

Init ==
    /\ skewed_df \in SkewedInputs
    /\ small_df \in SmallInputs
    /\ how \in JoinTypes
    /\ salt_count \in 1..MaxSaltCount
    /\ joined_df = NoDF
    /\ salt_df = NoDF
    /\ small_df_salted = NoDF
    /\ salted_join_df = NoDF
    /\ pc = "start"
    /\ InitRun
    /\ NotebooksNotRun

\* joined_df = skewed_df.join(small_df, on="join_col", how=...)
Join ==
    /\ pc = "start"
    /\ joined_df' = join(skewed_df, small_df, "join_col", how)
    /\ pc' = "joined"
    /\ UNCHANGED <<skewed_df, small_df, how, salt_count, notebooks, salt_df, small_df_salted, salted_join_df>>
    /\ UNCHANGED <<run_vars, job_description>>

\* skewed_df = skewed_df.withColumn("salted_col", ...)
SaltSkewedDf ==
    /\ pc = "joined"
    /\ \E draws \in RandDraws(Len(skewed_df.rows)) :
          skewed_df' = SaltSkewed(skewed_df, salt_count, draws)
    /\ pc' = "skew_salted"
    /\ job_description' = Some("Salted Join")
    /\ UNCHANGED <<small_df, how, salt_count, notebooks, joined_df, salt_df, small_df_salted, salted_join_df>>
    /\ UNCHANGED run_vars

\* salt_df = spark.range(salt_count)
MakeSaltDf ==
    /\ pc = "skew_salted"
    /\ salt_df' = range(salt_count)
    /\ pc' = "salt_df"
    /\ UNCHANGED <<skewed_df, small_df, how, salt_count, notebooks, joined_df, small_df_salted, salted_join_df>>
    /\ UNCHANGED <<run_vars, job_description>>

\* the small-side cell rebinding small_df itself to the exploded DataFrame
SaltSmallDfInPlace ==
    /\ pc = "salt_df"
    /\ small_df_salted' = SaltSmall(small_df, salt_df)
    /\ small_df' = crossJoin(small_df, salt_df)
    /\ pc' = "small_salted"
    /\ UNCHANGED <<skewed_df, how, salt_count, notebooks, joined_df, salt_df, salted_join_df>>
    /\ UNCHANGED <<run_vars, job_description>>

\* small_df_salted = small_df.crossJoin(salt_df).withColumn(...).drop("id", "join_col")
SaltSmallDf ==
    /\ pc = "salt_df"
    /\ small_df_salted' = SaltSmall(small_df, salt_df)
    /\ pc' = "small_salted"
    /\ UNCHANGED <<skewed_df, small_df, how, salt_count, notebooks, joined_df, salt_df, salted_join_df>>
    /\ UNCHANGED <<run_vars, job_description>>

\* salted_join_df = skewed_df.join(small_df_salted, on="salted_col", how=...)
SaltedJoin ==
    /\ pc = "small_salted"
    /\ salted_join_df' = join(skewed_df, small_df_salted, "salted_col", how)
    /\ pc' = "done"
    /\ job_description' = Some("Salted Join Row Count")
    /\ UNCHANGED <<skewed_df, small_df, how, salt_count, notebooks, joined_df, salt_df, small_df_salted>>
    /\ UNCHANGED run_vars

Next == Join \/ SaltSkewedDf \/ MakeSaltDf \/ SaltSmallDf \/ SaltedJoin

Spec == Init /\ [][Next]_vars

\* ------------------------------------------- the example at full size
\* The example's skewed_df has ten million rows.  It is held run-length
\* encoded: one row per run of consecutive ids that share every other column,
\* its id column holding the run <<first id, last id + 1>>.  The DataFrame
\* operations above act on such rows as they stand; counting weighs each row
\* by the length of its run.
row_ct == 10000000

example_salt_count == 10

\* a chain whose conditions are id <= c in place of id < c
join_col_of_inclusive(id) ==
    IF id <= 100 THEN "A"
    ELSE IF id <= 1000 THEN "B"
    ELSE IF id <= 10000 THEN "C"
    ELSE IF id <= 100000 THEN "D"
    ELSE "E"

\* F.when(id < 100, "A").when(id < 1000, "B").when(id < 10000, "C")
\*  .when(id < 100000, "D").otherwise("E"): the first condition that holds decides
join_col_of(id) ==
    IF id < 100 THEN "A"
    ELSE IF id < 1000 THEN "B"
    ELSE IF id < 10000 THEN "C"
    ELSE IF id < 100000 THEN "D"
    ELSE "E"

\* the constants the chain compares id with: join_col can change between
\* id - 1 and id only where id is one of them
WhenThresholds == {100, 1000, 10000, 100000}

RECURSIVE SortedSeq(_)
SortedSeq(S) ==
    IF S = {} THEN << >>
    ELSE LET m == CHOOSE x \in S : \A y \in S : x <= y
         IN  <<m>> \o SortedSeq(S \ {m})

\* spark.range(row_ct).withColumn("join_col", F.when(...)...) as runs
example_skewed_df ==
    LET cuts == SortedSeq({0, row_ct} \cup {c \in WhenThresholds :
                              c > 0 /\ c < row_ct /\ join_col_of(c) # join_col_of(c - 1)})
    IN  [columns |-> <<"id", "join_col">>,
         rows |-> [i \in 1..(Len(cuts) - 1) |->
                     [id |-> Some(<<cuts[i], cuts[i + 1]>>),
                      join_col |-> Some(join_col_of(cuts[i]))]]]

\* spark.createDataFrame([["A", 1], ["B", 2], ["C", 3], ["D", 4], ["E", 5]], ...)
example_small_df ==
    [columns |-> <<"join_col", "number_col">>,
     rows |-> << [join_col |-> Some("A"), number_col |-> Some(1)],
                 [join_col |-> Some("B"), number_col |-> Some(2)],
                 [join_col |-> Some("C"), number_col |-> Some(3)],
                 [join_col |-> Some("D"), number_col |-> Some(4)],
                 [join_col |-> Some("E"), number_col |-> Some(5)] >>]

\* number of rows a run-length encoded row stands for
RunLength(row) == row.id[1][2] - row.id[1][1]

RECURSIVE SumRunLengths(_, _)
SumRunLengths(rows, i) ==
    IF i > Len(rows) THEN 0 ELSE RunLength(rows[i]) + SumRunLengths(rows, i + 1)

\* df.count() and df.groupBy(names).count() on run-length encoded rows
countRuns(df) == SumRunLengths(df.rows, 1)

\* an aggregation that returns one row, of count 0, when there are no rows
groupByCountRunsOrGlobal(df, names) ==
    IF df.rows = << >> THEN [g \in {[c \in names |-> Null]} |-> 0]
    ELSE LET groups == {Project(df.rows[i], names) : i \in DOMAIN df.rows}
         IN  [g \in groups |->
                SumRunLengths(SelectSeq(df.rows, LAMBDA r : Project(r, names) = g), 1)]

groupByCountRuns(df, names) ==
    LET groups == {Project(df.rows[i], names) : i \in DOMAIN df.rows}
    IN  [g \in groups |->
           SumRunLengths(SelectSeq(df.rows, LAMBDA r : Project(r, names) = g), 1)]

\* F.rand on a run: every row of the run draws the lowest value ("first"),
\* every row draws the highest ("last"), or the rows are spread evenly over
\* all the values k / ExampleRandSteps ("even")
SplitPatterns == {"first", "last", "even"}

\* the sub-runs of one run, each with the draw of its rows; empty sub-runs left out
SplitRun(row, pattern) ==
    LET lo == row.id[1][1]
        len == RunLength(row)
        bound(k) == lo + ((len * k) \div ExampleRandSteps)
        parts == [k \in 1..ExampleRandSteps |->
                    [row |-> [row EXCEPT !.id = Some(<<bound(k - 1), bound(k)>>)],
                     draw |-> <<k - 1, ExampleRandSteps>>]]
    IN  IF pattern = "first" THEN << [row |-> row, draw |-> <<0, ExampleRandSteps>>] >>
        ELSE IF pattern = "last"
             THEN << [row |-> row, draw |-> <<ExampleRandSteps - 1, ExampleRandSteps>>] >>
             ELSE SelectSeq(parts, LAMBDA q : RunLength(q.row) > 0)

RECURSIVE SplitRuns(_, _, _)
SplitRuns(rows, patterns, i) ==
    IF i > Len(rows) THEN << >>
    ELSE SplitRun(rows[i], patterns[i]) \o SplitRuns(rows, patterns, i + 1)

\* skewed_df.withColumn("salted_col", ...) on runs
SaltSkewedRuns(df, n, patterns) ==
    LET parts == SplitRuns(df.rows, patterns, 1)
    IN  SaltSkewed([columns |-> df.columns, rows |-> [i \in DOMAIN parts |-> parts[i].row]],
                   n, [i \in DOMAIN parts |-> parts[i].draw])

InitExample ==
    /\ skewed_df = example_skewed_df
    /\ small_df = example_small_df
    /\ how \in JoinTypes
    /\ salt_count = example_salt_count
    /\ joined_df = NoDF
    /\ salt_df = NoDF
    /\ small_df_salted = NoDF
    /\ salted_join_df = NoDF
    /\ pc = "start"
    /\ InitRun
    /\ NotebooksNotRun

SaltSkewedRunsDf ==
    /\ pc = "joined"
    /\ \E patterns \in [DOMAIN skewed_df.rows -> SplitPatterns] :
          skewed_df' = SaltSkewedRuns(skewed_df, salt_count, patterns)
    /\ pc' = "skew_salted"
    /\ job_description' = Some("Salted Join")
    /\ UNCHANGED <<small_df, how, salt_count, notebooks, joined_df, salt_df, small_df_salted, salted_join_df>>
    /\ UNCHANGED run_vars

NextExample == Join \/ SaltSkewedRunsDf \/ MakeSaltDf \/ SaltSmallDf \/ SaltedJoin

SpecExample == InitExample /\ [][NextExample]_vars

\* --------------------------------------------- seeded runs, run twice
\* F.rand(seed) is a deterministic generator: the values it gives the rows
\* of a DataFrame are decided by the seed and by how the DataFrame is
\* partitioned.  Which values those are is left open: they are drawn when a
\* seed is first used on a partitioning, and are the same from then on.
Seeds == {123, 456}

Partitionings == {1, 2}

\* F.rand() without a seed: fresh draws on every use
rand_unseeded(seed, parts, n, drawn) == RandDraws(n)

rand(seed, parts, n, drawn) ==
    IF <<seed, parts>> \in DOMAIN drawn THEN {drawn[<<seed, parts>>]} ELSE RandDraws(n)

\* the first two rows of the example's mapping
mapping_df ==
    [columns |-> <<"join_col", "number_col">>,
     rows |-> <<[join_col |-> Some("A"), number_col |-> Some(1)],
                [join_col |-> Some("B"), number_col |-> Some(2)]>>]

InitSeeded ==
    /\ skewed_df \in {df \in SkewedInputs : count(df) = 2}
    /\ small_df = mapping_df
    /\ how \in JoinTypes
    /\ salt_count \in 1..MaxSaltCount
    /\ joined_df = NoDF
    /\ salt_df = NoDF
    /\ small_df_salted = NoDF
    /\ salted_join_df = NoDF
    /\ pc = "start"
    /\ key_type = "string"
    /\ seed_no \in Seeds
    /\ partitions \in Partitionings
    /\ rand_values = << >>
    /\ previous = NoRun
    /\ skew_profile = NoProfile
    /\ job_description = Null
    /\ NotebooksNotRun

\* skewed_df = skewed_df.withColumn("salted_col", ... F.rand(seed_no) ...)
SaltSkewedSeeded ==
    /\ pc = "joined"
    /\ \E draws \in rand(seed_no, partitions, Len(skewed_df.rows), rand_values) :
          /\ skewed_df' = SaltSkewed(skewed_df, salt_count, draws)
          /\ rand_values' = [k \in DOMAIN rand_values \cup {<<seed_no, partitions>>} |->
                                IF k = <<seed_no, partitions>> THEN draws ELSE rand_values[k]]
    /\ pc' = "skew_salted"
    /\ job_description' = Some("Salted Join")
    /\ UNCHANGED <<small_df, how, salt_count, notebooks, joined_df, salt_df, small_df_salted, salted_join_df>>
    /\ UNCHANGED <<key_type, seed_no, partitions, previous, skew_profile>>

\* the cells are run again from the top, on the same DataFrames, under a
\* seed and a partitioning that may or may not be those of the first run
RunAgain ==
    /\ pc = "done"
    /\ previous = NoRun
    /\ previous' = [seed_no |-> Some(seed_no), partitions |-> Some(partitions),
                    skewed_df |-> skewed_df, salted_join_df |-> salted_join_df]
    /\ skewed_df' = drop(skewed_df, {"salted_col"})
    /\ seed_no' \in Seeds
    /\ partitions' \in Partitionings
    /\ joined_df' = NoDF
    /\ salt_df' = NoDF
    /\ small_df_salted' = NoDF
    /\ salted_join_df' = NoDF
    /\ pc' = "start"
    /\ UNCHANGED <<small_df, how, salt_count, notebooks, key_type, rand_values, skew_profile, job_description>>

NextSeeded == Join \/ SaltSkewedSeeded \/ MakeSaltDf \/ SaltSmallDf \/ SaltedJoin \/ RunAgain

SpecSeeded == InitSeeded /\ [][NextSeeded]_vars

\* ------------------------------------------------ cells that can raise
\* The cells hold no check of their own and no exception handling: what is
\* raised is raised by Spark, when a transformation is analysed or when an
\* action runs, and leaves the cell at once.
SparkJoinTypes ==
    {"inner", "cross", "outer", "full", "fullouter", "full_outer",
     "left", "leftouter", "left_outer", "right", "rightouter", "right_outer",
     "semi", "leftsemi", "left_semi", "anti", "leftanti", "left_anti"}

\* the types F.concat takes beside strings by casting them to string
ConcatTypes == {"string", "bigint", "int", "double", "boolean", "date", "timestamp"}

KeyTypes == {"string", "struct"}

\* df.join(other, on=..., how=...) is analysed when it is called
JoinRaises(df, other, on, h) ==
    \/ h \notin SparkJoinTypes
    \/ ~HasColumn(df, on)
    \/ ~HasColumn(other, on)

\* df.withColumn(..., F.concat(F.col(name), ...)) is analysed when it is called
ConcatRaises(df, name, type) ==
    \/ ~HasColumn(df, name)
    \/ type \notin ConcatTypes

\* the DataFrame with each join_col value v held as the struct (letter: v)
StructKeyed(df) ==
    IF HasColumn(df, "join_col")
    THEN [columns |-> df.columns,
          rows |-> [i \in DOMAIN df.rows |->
                       [df.rows[i] EXCEPT !.join_col =
                           IF @ = Null THEN Null ELSE Some([letter |-> @[1]])]]]
    ELSE df

InitRaising ==
    /\ key_type \in KeyTypes
    /\ \E df \in {d \in SkewedInputs : count(d) = 2} \cup {range(2)} :
          skewed_df = IF key_type = "struct" THEN StructKeyed(df) ELSE df
    /\ \E df \in {mapping_df, drop(mapping_df, {"join_col"})} :
          small_df = IF key_type = "struct" THEN StructKeyed(df) ELSE df
    /\ how \in JoinTypes \cup {"sideways"}
    /\ salt_count \in (-1)..MaxSaltCount
    /\ joined_df = NoDF
    /\ salt_df = NoDF
    /\ small_df_salted = NoDF
    /\ salted_join_df = NoDF
    /\ pc = "start"
    /\ seed_no = 123
    /\ partitions = 1
    /\ rand_values = << >>
    /\ previous = NoRun
    /\ skew_profile = NoProfile
    /\ job_description = Null
    /\ NotebooksNotRun

\* an exception leaves the cell before the cell binds its name
Raise ==
    /\ pc' = "error"
    /\ UNCHANGED <<skewed_df, small_df, how, salt_count, notebooks, joined_df, salt_df,
                   small_df_salted, salted_join_df, run_vars, job_description>>

JoinOrRaise ==
    /\ pc = "start"
    /\ IF JoinRaises(skewed_df, small_df, "join_col", how) THEN Raise ELSE Join

\* a transform that renders a key it cannot concatenate as text of some kind
SaltSkewedCoercing ==
    /\ pc = "joined"
    /\ IF HasColumn(skewed_df, "join_col") /\ key_type \notin ConcatTypes
       THEN /\ skewed_df' = withColumn(skewed_df, "salted_col",
                                       [i \in DOMAIN skewed_df.rows |-> Some("{}-0")])
            /\ pc' = "skew_salted"
            /\ job_description' = Some("Salted Join")
            /\ UNCHANGED <<small_df, how, salt_count, notebooks, joined_df, salt_df,
                           small_df_salted, salted_join_df, run_vars>>
       ELSE IF ~HasColumn(skewed_df, "join_col") THEN Raise ELSE SaltSkewedDf

SaltSkewedOrRaise ==
    /\ pc = "joined"
    /\ IF ConcatRaises(skewed_df, "join_col", key_type)
       THEN /\ pc' = "error"
            /\ job_description' = Some("Salted Join")
            /\ UNCHANGED <<skewed_df, small_df, how, salt_count, notebooks, joined_df, salt_df,
                           small_df_salted, salted_join_df, run_vars>>
       ELSE SaltSkewedDf

SaltSmallOrRaise ==
    /\ pc = "salt_df"
    /\ IF ConcatRaises(small_df, "join_col", key_type) THEN Raise ELSE SaltSmallDf

SaltedJoinOrRaise ==
    /\ pc = "small_salted"
    /\ IF JoinRaises(skewed_df, small_df_salted, "salted_col", how) THEN Raise ELSE SaltedJoin

\* the engine fails while a cell runs, before the cell has bound its name
CellFails ==
    /\ pc \in {"start", "joined", "skew_salted", "salt_df", "small_salted"}
    /\ Raise

\* a failure that binds the rows the engine had produced so far
CountFailsPartial ==
    /\ pc = "small_salted"
    /\ ~JoinRaises(skewed_df, small_df_salted, "salted_col", how)
    /\ LET whole == join(skewed_df, small_df_salted, "salted_col", how)
       IN  salted_join_df' = [whole EXCEPT !.rows = SubSeq(@, 1, Len(@) - 1)]
    /\ pc' = "error"
    /\ job_description' = Some("Salted Join Row Count")
    /\ UNCHANGED <<skewed_df, small_df, how, salt_count, notebooks, joined_df, salt_df, small_df_salted>>
    /\ UNCHANGED run_vars

\* the engine fails in salted_join_df.count(): salted_join_df is bound by
\* then, to the DataFrame of the join, and the count returns nothing
CountFails ==
    /\ pc = "small_salted"
    /\ ~JoinRaises(skewed_df, small_df_salted, "salted_col", how)
    /\ salted_join_df' = join(skewed_df, small_df_salted, "salted_col", how)
    /\ pc' = "error"
    /\ job_description' = Some("Salted Join Row Count")
    /\ UNCHANGED <<skewed_df, small_df, how, salt_count, notebooks, joined_df, salt_df, small_df_salted>>
    /\ UNCHANGED run_vars

NextRaising ==
    \/ JoinOrRaise
    \/ SaltSkewedOrRaise
    \/ MakeSaltDf
    \/ SaltSmallOrRaise
    \/ SaltedJoinOrRaise
    \/ CellFails
    \/ CountFails

SpecRaising == InitRaising /\ [][NextRaising]_vars

\* ------------------------------------------- the grouped count of join_col
\* skewed_df.groupBy("join_col").count()
\*          .withColumn("pct_of_data", F.round((F.col("count") / row_ct) * 100, 3)).show()
\* A pct_of_data is held in thousandths: Some(33333) is 33.333.

\* n / total in thousandths, by long division so that no step leaves the
\* 32-bit integers: the digits before rounding, and the remainder behind them
Thousandths(n, total) ==
    LET r0 == n % total
        r1 == (r0 * 10) % total
        r2 == (r1 * 10) % total
    IN  [digits |-> (n \div total) * 1000 + ((r0 * 10) \div total) * 100
                        + ((r1 * 10) \div total) * 10 + ((r2 * 10) \div total),
         rest |-> (r2 * 10) % total]

\* the percentage cut to three decimals, and the share in tenths of a percent
pct_of_data_truncated(c, total) ==
    IF total = 0 THEN Null ELSE Some(Thousandths(c * 100, total).digits)

pct_of_data_per_mille(c, total) ==
    IF total = 0 THEN Null
    ELSE LET t == Thousandths(c * 100, total)
         IN  Some(10 * (IF 2 * t.rest >= total THEN t.digits + 1 ELSE t.digits))

\* F.round((count / row_ct) * 100, 3): to the nearest thousandth, halves up;
\* a division by zero gives null
pct_of_data(c, total) ==
    IF total = 0 THEN Null
    ELSE LET t == Thousandths(c * 100, total)
         IN  Some(IF 2 * t.rest >= total THEN t.digits + 1 ELSE t.digits)

\* the rows of the table shown: join_col -> (count, pct_of_data)
SkewTable(counts, total) ==
    [g \in DOMAIN counts |->
        [count |-> counts[g], pct_of_data |-> pct_of_data(counts[g], total)]]

Shown(table) == [shown |-> TRUE, table |-> table]

\* a diagnostic that keeps its table under the name skewed_df
DiagnoseInPlace ==
    /\ pc = "start"
    /\ ~skew_profile.shown
    /\ LET table == SkewTable(groupByCount(skewed_df, {"join_col"}), count(skewed_df))
           keys == SortedSeq({i \in DOMAIN skewed_df.rows :
                                \A j \in 1..(i - 1) :
                                    skewed_df.rows[j].join_col # skewed_df.rows[i].join_col})
       IN  /\ skew_profile' = Shown(table)
           /\ skewed_df' = [columns |-> <<"join_col", "count", "pct_of_data">>,
                            rows |-> [n \in DOMAIN keys |->
                                        LET k == skewed_df.rows[keys[n]].join_col
                                        IN  [join_col |-> k,
                                             count |-> Some(table[[join_col |-> k]].count),
                                             pct_of_data |-> table[[join_col |-> k]].pct_of_data]]]
    /\ UNCHANGED <<small_df, how, salt_count, notebooks, joined_df, salt_df, small_df_salted,
                   salted_join_df, pc, key_type, seed_no, partitions, rand_values,
                   previous, job_description>>

\* the cell run on skewed_df, before the joins as in the notebook
Diagnose ==
    /\ pc = "start"
    /\ ~skew_profile.shown
    /\ skew_profile' = Shown(SkewTable(groupByCount(skewed_df, {"join_col"}), count(skewed_df)))
    /\ UNCHANGED <<skewed_df, small_df, how, salt_count, notebooks, joined_df, salt_df, small_df_salted,
                   salted_join_df, pc, key_type, seed_no, partitions, rand_values,
                   previous, job_description>>

\* the cells with the grouped count run before them or not at all
NextAdvisory == Diagnose \/ Join \/ SaltSkewedDf \/ MakeSaltDf \/ SaltSmallDf \/ SaltedJoin

SpecAdvisory == Init /\ [][NextAdvisory]_vars

\* DataFrames held in runs, for the grouped count alone: up to MaxRuns runs
\* of up to MaxRunLength rows, each run with a key of its own choice
MaxRuns == 2

MaxRunLength == 3

RECURSIVE SumLengths(_, _)
SumLengths(lens, n) == IF n = 0 THEN 0 ELSE lens[n] + SumLengths(lens, n - 1)

RunsDf(keys, lens) ==
    [columns |-> <<"id", "join_col">>,
     rows |-> [i \in DOMAIN keys |->
                 [id |-> Some(<<SumLengths(lens, i - 1), SumLengths(lens, i)>>),
                  join_col |-> keys[i]]]]

RunInputs ==
    UNION {{RunsDf(ks, ls) : ks \in [1..n -> KeyDom], ls \in [1..n -> 1..MaxRunLength]} :
           n \in 0..MaxRuns}

\* a key spread evenly: n keys K1..Kn with the same number of rows each
uniform_keys == 100

uniform_rows_per_key == 100

UniformDf(n, per) ==
    [columns |-> <<"id", "join_col">>,
     rows |-> [i \in 1..n |->
                 [id |-> Some(<<(i - 1) * per, i * per>>),
                  join_col |-> Some("K" \o ToString(i))]]]

UniformInputs == {UniformDf(n, uniform_rows_per_key) : n \in 1..(uniform_keys + 1)}

InitDiagnostic ==
    /\ skewed_df \in RunInputs \cup UniformInputs \cup {example_skewed_df}
    /\ small_df = example_small_df
    /\ how = "left"
    /\ salt_count = example_salt_count
    /\ joined_df = NoDF
    /\ salt_df = NoDF
    /\ small_df_salted = NoDF
    /\ salted_join_df = NoDF
    /\ pc = "start"
    /\ InitRun
    /\ NotebooksNotRun

DiagnoseRuns ==
    /\ pc = "start"
    /\ ~skew_profile.shown
    /\ skew_profile' = Shown(SkewTable(groupByCountRuns(skewed_df, {"join_col"}),
                                       countRuns(skewed_df)))
    /\ UNCHANGED <<skewed_df, small_df, how, salt_count, notebooks, joined_df, salt_df, small_df_salted,
                   salted_join_df, pc, key_type, seed_no, partitions, rand_values,
                   previous, job_description>>

NextDiagnostic == DiagnoseRuns

SpecDiagnostic == InitDiagnostic /\ [][NextDiagnostic]_vars

\* the threshold of the recommendation, 1 %, in thousandths
salting_threshold == 1000

\* salting is recommended when a key's percentage in the table exceeds the threshold
SaltingRecommended(table) ==
    \E g \in DOMAIN table :
        /\ table[g].pct_of_data # Null
        /\ table[g].pct_of_data[1] > salting_threshold

\* ------------------------------------------ two runs at the same time
\* Two runs of the cells in one Spark application, their steps interleaved
\* in any order.  Each run has its own names: here skewed_df, small_df, how,
\* salt_count, joined_df, salt_df, small_df_salted, salted_join_df and pc hold
\* one value per run.  The DataFrames the names start from may be the same for
\* both runs.  The job description belongs to the SparkContext, which the runs
\* share.
Invocations == {1, 2}

ConcurrentSkewedInputs ==
    {df \in SkewedInputs : count(df) = 2 /\ \A i \in 1..2 : df.rows[i].join_col # Null}

InitConcurrent ==
    /\ skewed_df \in [Invocations -> ConcurrentSkewedInputs]
    /\ small_df = [p \in Invocations |-> mapping_df]
    /\ how \in [Invocations -> JoinTypes]
    /\ salt_count \in [Invocations -> 1..MaxSaltCount]
    /\ joined_df = [p \in Invocations |-> NoDF]
    /\ salt_df = [p \in Invocations |-> NoDF]
    /\ small_df_salted = [p \in Invocations |-> NoDF]
    /\ salted_join_df = [p \in Invocations |-> NoDF]
    /\ pc = [p \in Invocations |-> "start"]
    /\ InitRun
    /\ NotebooksNotRun

JoinStep(p) ==
    /\ pc[p] = "start"
    /\ joined_df' = [joined_df EXCEPT ![p] = join(skewed_df[p], small_df[p], "join_col", how[p])]
    /\ pc' = [pc EXCEPT ![p] = "joined"]
    /\ UNCHANGED <<skewed_df, small_df, how, salt_count, notebooks, salt_df, small_df_salted, salted_join_df>>
    /\ UNCHANGED <<run_vars, job_description>>

SaltSkewedStep(p) ==
    /\ pc[p] = "joined"
    /\ \E draws \in RandDraws(Len(skewed_df[p].rows)) :
          skewed_df' = [skewed_df EXCEPT ![p] = SaltSkewed(skewed_df[p], salt_count[p], draws)]
    /\ pc' = [pc EXCEPT ![p] = "skew_salted"]
    /\ job_description' = Some("Salted Join")
    /\ UNCHANGED <<small_df, how, salt_count, notebooks, joined_df, salt_df, small_df_salted, salted_join_df>>
    /\ UNCHANGED run_vars

\* salt_df as one name that every run binds and reads
MakeSaltStepShared(p) ==
    /\ pc[p] = "skew_salted"
    /\ salt_df' = [q \in Invocations |-> range(salt_count[p])]
    /\ pc' = [pc EXCEPT ![p] = "salt_df"]
    /\ UNCHANGED <<skewed_df, small_df, how, salt_count, notebooks, joined_df, small_df_salted, salted_join_df>>
    /\ UNCHANGED <<run_vars, job_description>>

MakeSaltStep(p) ==
    /\ pc[p] = "skew_salted"
    /\ salt_df' = [salt_df EXCEPT ![p] = range(salt_count[p])]
    /\ pc' = [pc EXCEPT ![p] = "salt_df"]
    /\ UNCHANGED <<skewed_df, small_df, how, salt_count, notebooks, joined_df, small_df_salted, salted_join_df>>
    /\ UNCHANGED <<run_vars, job_description>>

SaltSmallStep(p) ==
    /\ pc[p] = "salt_df"
    /\ small_df_salted' = [small_df_salted EXCEPT ![p] = SaltSmall(small_df[p], salt_df[p])]
    /\ pc' = [pc EXCEPT ![p] = "small_salted"]
    /\ UNCHANGED <<skewed_df, small_df, how, salt_count, notebooks, joined_df, salt_df, salted_join_df>>
    /\ UNCHANGED <<run_vars, job_description>>

SaltedJoinStep(p) ==
    /\ pc[p] = "small_salted"
    /\ salted_join_df' = [salted_join_df EXCEPT ![p] =
                             join(skewed_df[p], small_df_salted[p], "salted_col", how[p])]
    /\ pc' = [pc EXCEPT ![p] = "done"]
    /\ job_description' = Some("Salted Join Row Count")
    /\ UNCHANGED <<skewed_df, small_df, how, salt_count, notebooks, joined_df, salt_df, small_df_salted>>
    /\ UNCHANGED run_vars

NextConcurrent ==
    \/ \E p \in Invocations : JoinStep(p)
    \/ \E p \in Invocations : SaltSkewedStep(p)
    \/ \E p \in Invocations : MakeSaltStep(p)
    \/ \E p \in Invocations : SaltSmallStep(p)
    \/ \E p \in Invocations : SaltedJoinStep(p)

SpecConcurrent == InitConcurrent /\ [][NextConcurrent]_vars

\* ------------------------------------------------- right and outer joins
\* the join types that keep the unmatched rows of the small side
OuterJoinTypes == {"right", "outer"}

\* the cells run with how="right" or how="outer" in both joins
InitOuter ==
    /\ skewed_df \in SkewedInputs
    /\ small_df \in SmallInputs
    /\ how \in OuterJoinTypes
    /\ salt_count \in 1..MaxSaltCount
    /\ joined_df = NoDF
    /\ salt_df = NoDF
    /\ small_df_salted = NoDF
    /\ salted_join_df = NoDF
    /\ pc = "start"
    /\ InitRun
    /\ NotebooksNotRun

SpecOuter == InitOuter /\ [][Next]_vars

\* the cells as the notebook has them: how="left" in both joins
InitLeft ==
    /\ skewed_df \in SkewedInputs
    /\ small_df \in SmallInputs
    /\ how = "left"
    /\ salt_count \in 1..MaxSaltCount
    /\ joined_df = NoDF
    /\ salt_df = NoDF
    /\ small_df_salted = NoDF
    /\ salted_join_df = NoDF
    /\ pc = "start"
    /\ InitRun
    /\ NotebooksNotRun

SpecLeft == InitLeft /\ [][Next]_vars

\* ------------------------------------------------ the cells in any order
\* The skewed-side cell reads skewed_df and salt_count; the cells of the small
\* side read small_df and salt_count; only the join reads what both produce.
\* Here a cell can run as soon as the names it reads are bound, and pc lists
\* the cells run so far, in order.
Ran(cell) == \E i \in DOMAIN pc : pc[i] = cell

InitAnyOrder ==
    /\ skewed_df \in SkewedInputs
    /\ small_df = mapping_df
    /\ how \in JoinTypes
    /\ salt_count \in 1..MaxSaltCount
    /\ joined_df = NoDF
    /\ salt_df = NoDF
    /\ small_df_salted = NoDF
    /\ salted_join_df = NoDF
    /\ pc = << >>
    /\ InitRun
    /\ NotebooksNotRun

\* skewed_df = skewed_df.withColumn("salted_col", ... F.rand(seed_no) ...)
SaltSkewedAnyOrder ==
    /\ ~Ran("skewed_df")
    /\ \E draws \in rand(seed_no, partitions, Len(skewed_df.rows), rand_values) :
          /\ skewed_df' = SaltSkewed(skewed_df, salt_count, draws)
          /\ rand_values' = [k \in DOMAIN rand_values \cup {<<seed_no, partitions>>} |->
                                IF k = <<seed_no, partitions>> THEN draws ELSE rand_values[k]]
    /\ pc' = Append(pc, "skewed_df")
    /\ job_description' = Some("Salted Join")
    /\ UNCHANGED <<small_df, how, salt_count, notebooks, joined_df, salt_df, small_df_salted, salted_join_df>>
    /\ UNCHANGED <<key_type, seed_no, partitions, previous, skew_profile>>

\* salt_df = spark.range(salt_count)
MakeSaltDfAnyOrder ==
    /\ ~Ran("salt_df")
    /\ salt_df' = range(salt_count)
    /\ pc' = Append(pc, "salt_df")
    /\ UNCHANGED <<skewed_df, small_df, how, salt_count, notebooks, joined_df, small_df_salted, salted_join_df>>
    /\ UNCHANGED <<run_vars, job_description>>

\* a small-side cell that explodes to every salt index only once the skewed
\* side holds its salted keys
SaltSmallAfterSkewedOnly ==
    /\ Ran("salt_df")
    /\ ~Ran("small_df_salted")
    /\ small_df_salted' = IF Ran("skewed_df") THEN SaltSmall(small_df, salt_df)
                                              ELSE SaltSmallOneIndex(small_df, salt_df)
    /\ pc' = Append(pc, "small_df_salted")
    /\ UNCHANGED <<skewed_df, small_df, how, salt_count, notebooks, joined_df, salt_df, salted_join_df>>
    /\ UNCHANGED <<run_vars, job_description>>

\* small_df_salted = small_df.crossJoin(salt_df).withColumn(...).drop("id", "join_col")
SaltSmallAnyOrder ==
    /\ Ran("salt_df")
    /\ ~Ran("small_df_salted")
    /\ small_df_salted' = SaltSmall(small_df, salt_df)
    /\ pc' = Append(pc, "small_df_salted")
    /\ UNCHANGED <<skewed_df, small_df, how, salt_count, notebooks, joined_df, salt_df, salted_join_df>>
    /\ UNCHANGED <<run_vars, job_description>>

\* salted_join_df = skewed_df.join(small_df_salted, on="salted_col", how=...)
SaltedJoinAnyOrder ==
    /\ Ran("skewed_df")
    /\ Ran("small_df_salted")
    /\ ~Ran("salted_join_df")
    /\ salted_join_df' = join(skewed_df, small_df_salted, "salted_col", how)
    /\ pc' = Append(pc, "salted_join_df")
    /\ job_description' = Some("Salted Join Row Count")
    /\ UNCHANGED <<skewed_df, small_df, how, salt_count, notebooks, joined_df, salt_df, small_df_salted>>
    /\ UNCHANGED run_vars

NextAnyOrder ==
    SaltSkewedAnyOrder \/ MakeSaltDfAnyOrder \/ SaltSmallAnyOrder \/ SaltedJoinAnyOrder

SpecAnyOrder == InitAnyOrder /\ [][NextAnyOrder]_vars

\* ---------------------------------------------------- the union notebook
\* DataFrames of this notebook carry their schema: types gives the type of
\* each column, as df.dtypes does.
MaxFrameRows == 2

\* df1_schema: `tournament_year` int, `event` string, `champion` string
Schema == [tournament_year |-> "int", event |-> "string", champion |-> "string"]

\* the value in row r of DataFrame d under column c: a year under
\* tournament_year, a text under event and champion, none twice
ValueAt(d, r, c) ==
    IF Schema[c] = "int" THEN Some(2000 + 10 * d + r)
                         ELSE Some(c \o ToString(d) \o ToString(r))

\* the schemas of k columns in any order
ColumnOrders(k) ==
    {cols \in [1..k -> DOMAIN Schema] : \A i, j \in 1..k : cols[i] = cols[j] => i = j}

\* spark.createDataFrame(rows, schema=...)
createDataFrame(d, cols, n) ==
    LET names == {cols[i] : i \in DOMAIN cols}
    IN  [columns |-> cols,
         types |-> [c \in names |-> Schema[c]],
         rows |-> [r \in 1..n |-> [c \in names |-> ValueAt(d, r, c)]]]

\* df.dtypes: the list of (name, type)
dtypes(df) == [i \in DOMAIN df.columns |-> <<df.columns[i], df.types[df.columns[i]]>>]

\* dict(set(df1.dtypes + df2.dtypes + df3.dtypes)): one entry per column name
\* in the order the set happens to yield the names; a name with two types
\* keeps one of them
dict_of_set(pairs) ==
    LET names == {pr[1] : pr \in pairs}
    IN  {cd \in [1..Cardinality(names) -> pairs] :
            \A i, j \in DOMAIN cd : cd[i][1] = cd[j][1] => i = j}

\* col_dict.keys()
keys(cd) == [i \in DOMAIN cd |-> cd[i][1]]

\* df.withColumn(name, F.lit(None).cast(type))
withColumnNone(df, name, type) ==
    [columns |-> IF HasColumn(df, name) THEN df.columns ELSE Append(df.columns, name),
     types |-> [c \in ColumnSet(df) \cup {name} |-> IF c = name THEN type ELSE df.types[c]],
     rows |-> [i \in DOMAIN df.rows |->
                 [c \in ColumnSet(df) \cup {name} |->
                    IF c = name THEN Null ELSE df.rows[i][c]]]]

\* the loop without its test: every column of col_dict is set to nulls
RECURSIVE add_every_column_loop(_, _, _)
add_every_column_loop(df, cd, i) ==
    IF i > Len(cd) THEN df
    ELSE add_every_column_loop(withColumnNone(df, cd[i][1], cd[i][2]), cd, i + 1)

\* for col in col_dict.keys(): if col not in df.columns: df = df.withColumn(...)
RECURSIVE add_empty_columns_loop(_, _, _)
add_empty_columns_loop(df, cd, i) ==
    IF i > Len(cd) THEN df
    ELSE add_empty_columns_loop(IF HasColumn(df, cd[i][1]) THEN df
                                ELSE withColumnNone(df, cd[i][1], cd[i][2]),
                                cd, i + 1)

add_empty_columns(df, cd) == add_empty_columns_loop(df, cd, 1)

\* a select that leaves the columns where they are
selectAsIs(df, names) == df

\* df.select(names)
select(df, names) ==
    [columns |-> names,
     types |-> [c \in {names[i] : i \in DOMAIN names} |-> df.types[c]],
     rows |-> [r \in DOMAIN df.rows |->
                 [c \in {names[i] : i \in DOMAIN names} |-> df.rows[r][c]]]]

\* the type of a union's column: the common type, string for int and string
Widen(t1, t2) == IF t1 = t2 THEN t1 ELSE "string"

\* the cast of a value of type from to type to
Cast(v, from, to) ==
    IF v = Null \/ from = to THEN v
    ELSE IF to = "string" THEN Some(ToString(v[1])) ELSE Null

PositionOf(df, c) == CHOOSE i \in DOMAIN df.columns : df.columns[i] = c

\* Union can only be performed on tables with the same number of columns
UnionRaises(df, other) == Len(df.columns) # Len(other.columns)

\* df.union(other): the rows of other under the rows of df, column i of other
\* under column i of df, with the names of df and the common type
union(df, other) ==
    LET under(c) == other.columns[PositionOf(df, c)]
        type == [c \in ColumnSet(df) |-> Widen(df.types[c], other.types[under(c)])]
    IN  [columns |-> df.columns,
         types |-> type,
         rows |-> [r \in DOMAIN df.rows |->
                     [c \in ColumnSet(df) |-> Cast(df.rows[r][c], df.types[c], type[c])]]
                  \o [r \in DOMAIN other.rows |->
                        [c \in ColumnSet(df) |->
                            Cast(other.rows[r][under(c)], other.types[under(c)], type[c])]]]

\* the salted join notebook is not run
SaltedJoinNotRun ==
    /\ skewed_df = NoDF
    /\ small_df = NoDF
    /\ how = "left"
    /\ salt_count = 1
    /\ joined_df = NoDF
    /\ salt_df = NoDF
    /\ small_df_salted = NoDF
    /\ salted_join_df = NoDF
    /\ InitRun

salted_join_names ==
    <<skewed_df, small_df, how, salt_count, joined_df, salt_df, small_df_salted,
      salted_join_df, run_vars, job_description>>

\* df1 with three columns, df2 with two, df3 with one, in any column order
InitUnion ==
    /\ \E cols \in ColumnOrders(3) : \E n \in 0..MaxFrameRows :
          df1 = createDataFrame(1, cols, n)
    /\ \E cols \in ColumnOrders(2) : \E n \in 0..MaxFrameRows :
          df2 = createDataFrame(2, cols, n)
    /\ \E cols \in ColumnOrders(1) : \E n \in 0..MaxFrameRows :
          df3 = createDataFrame(3, cols, n)
    /\ col_dict = << >>
    /\ col_order = << >>
    /\ df_joined = NoDF
    /\ rescue = << >>
    /\ pc = "start"
    /\ SaltedJoinNotRun

\* col_dict = dict(set(df1.dtypes + df2.dtypes + df3.dtypes))
MakeColDict ==
    /\ pc = "start"
    /\ col_dict' \in dict_of_set(UNION {{dtypes(df)[i] : i \in DOMAIN df.columns} : df \in {df1, df2, df3}})
    /\ pc' = "col_dict"
    /\ UNCHANGED <<df1, df2, df3, col_order, df_joined, rescue, salted_join_names>>

\* df1 = add_empty_columns(df1, col_dict), and the same for df2 and df3
AddEmptyColumns ==
    /\ pc = "col_dict"
    /\ df1' = add_empty_columns(df1, col_dict)
    /\ df2' = add_empty_columns(df2, col_dict)
    /\ df3' = add_empty_columns(df3, col_dict)
    /\ pc' = "added"
    /\ UNCHANGED <<col_dict, col_order, df_joined, rescue, salted_join_names>>

\* a union of the DataFrames as they are, all columns there but in the
\* order each DataFrame has them
UnionWithoutSelect ==
    /\ pc = "added"
    /\ ~UnionRaises(df1, df2)
    /\ ~UnionRaises(df1, df3)
    /\ df_joined' = union(union(df1, df2), df3)
    /\ pc' = "by_position"
    /\ UNCHANGED <<df1, df2, df3, col_dict, col_order, rescue, salted_join_names>>

\* col_order = list(col_dict.keys())
MakeColOrder ==
    /\ pc = "added"
    /\ col_order' = keys(col_dict)
    /\ pc' = "col_order"
    /\ UNCHANGED <<df1, df2, df3, col_dict, df_joined, rescue, salted_join_names>>

\* df_joined = df1.select(col_order).union(df2.select(col_order)).union(df3.select(col_order))
Union ==
    /\ pc = "col_order"
    /\ df_joined' = union(union(select(df1, col_order), select(df2, col_order)),
                          select(df3, col_order))
    /\ pc' = "done"
    /\ UNCHANGED <<df1, df2, df3, col_dict, col_order, rescue, salted_join_names>>

NextUnion == MakeColDict \/ AddEmptyColumns \/ UnionWithoutSelect \/ MakeColOrder \/ Union

SpecUnion == InitUnion /\ [][NextUnion]_vars

\* ------------------------------------- keys that look like salted keys
\* join_col is a string column: its values can hold the delimiter and digits
DelimiterKeys == {"A", "A1", "A-1"}

\* salt indices of two digits are checked on the salted keys themselves
MaxSaltIndex == 11

DelimiterKeyDom == {Some(k) : k \in DelimiterKeys}

\* skewed_df with any of these keys per id; small_df with any of them per
\* row and the row number as number_col
InitKeys ==
    /\ skewed_df \in UNION {{withColumn(range(n), "join_col", ks) : ks \in [1..n -> DelimiterKeyDom]} :
                              n \in 0..MaxSkewedRows}
    /\ small_df \in UNION {{[columns |-> <<"join_col", "number_col">>,
                             rows |-> [i \in 1..n |-> [join_col |-> ks[i], number_col |-> Some(i)]]] :
                               ks \in [1..n -> DelimiterKeyDom]} :
                             n \in 0..MaxSmallRows}
    /\ how \in JoinTypes
    /\ salt_count \in 1..MaxSaltCount
    /\ joined_df = NoDF
    /\ salt_df = NoDF
    /\ small_df_salted = NoDF
    /\ salted_join_df = NoDF
    /\ pc = "start"
    /\ InitRun
    /\ NotebooksNotRun

SpecKeys == InitKeys /\ [][Next]_vars

\* ------------------------------------------------- the sparklyr cells
\* concat_ws(sep, a, b) of Spark SQL on one row: the inputs that are not
\* null, with sep between them; never null
concat_ws2(sep, a, b) ==
    IF a = Null /\ b = Null THEN Some("")
    ELSE IF a = Null THEN b
    ELSE IF b = Null THEN a
    ELSE Some(a[1] \o sep \o b[1])

\* concat_ws(sep, c1, c2) on columns; the second column holds bigints
concat_ws(sep, c1, c2) == [i \in DOMAIN c1 |-> concat_ws2(sep, c1[i], CastString(c2[i]))]

\* sparklyr::mutate(salted_col = concat_ws("-", join_col, floor(rand(seed_no) * salt_count)))
SaltSkewedSparklyr(df, n, draws) ==
    withColumn(df, "salted_col",
               concat_ws("-", col(df, "join_col"), floor_rand_times(draws, n)))

\* full_join(salt_df, by=character()), mutate(salted_col = concat_ws("-", join_col, id)),
\* select(-id, -join_col)
SaltSmallSparklyr(df, salts) ==
    LET crossed == crossJoin(df, salts)
    IN  drop(withColumn(crossed, "salted_col",
                        concat_ws("-", col(crossed, "join_col"), col(crossed, "id"))),
             {"id", "join_col"})

SaltSkewedDfSparklyr ==
    /\ pc = "joined"
    /\ \E draws \in RandDraws(Len(skewed_df.rows)) :
          skewed_df' = SaltSkewedSparklyr(skewed_df, salt_count, draws)
    /\ pc' = "skew_salted"
    /\ job_description' = Some("Salted Join")
    /\ UNCHANGED <<small_df, how, salt_count, notebooks, joined_df, salt_df, small_df_salted, salted_join_df>>
    /\ UNCHANGED run_vars

SaltSmallDfSparklyr ==
    /\ pc = "salt_df"
    /\ small_df_salted' = SaltSmallSparklyr(small_df, salt_df)
    /\ pc' = "small_salted"
    /\ UNCHANGED <<skewed_df, small_df, how, salt_count, notebooks, joined_df, salt_df, salted_join_df>>
    /\ UNCHANGED <<run_vars, job_description>>

NextSparklyr == Join \/ SaltSkewedDfSparklyr \/ MakeSaltDf \/ SaltSmallDfSparklyr \/ SaltedJoin

SpecSparklyr == Init /\ [][NextSparklyr]_vars

\* ------------------------------------------------- the cost groups
\* rescue is read from the same parquet file in the PySpark and in the
\* sparklyr session; rescue[d] is the DataFrame of the session of dialect d.
MaxRescueRows == 2

Dialects == {"PySpark", "sparklyr"}

\* total_cost around the limits of the groups; null where no cost is recorded
Costs == {0, 299, 300, 899, 900, 999, 1000}

CostDom == {Some(c) : c \in Costs} \cup {Null}

\* F.when(F.col("total_cost") < 300, "small")
\*  .when((F.col("total_cost") >= 300) & (F.col("total_cost") < 900), "medium")
\*  .when(F.col("total_cost") >= 1000, "large").otherwise(None)
\* a comparison with null is null, and a when that is not true is passed over
when_otherwise(total_cost) ==
    IF total_cost # Null /\ total_cost[1] < 300 THEN Some("small")
    ELSE IF total_cost # Null /\ total_cost[1] >= 300 /\ total_cost[1] < 900 THEN Some("medium")
    ELSE IF total_cost # Null /\ total_cost[1] >= 1000 THEN Some("large")
    ELSE Null

\* dplyr::case_when(total_cost < 300 ~ "small",
\*                  total_cost >= 300 & total_cost < 900 ~ "medium",
\*                  total_cost >= 900 ~ "large", TRUE ~ NULL)
case_when(total_cost) ==
    IF total_cost # Null /\ total_cost[1] < 300 THEN Some("small")
    ELSE IF total_cost # Null /\ total_cost[1] >= 300 /\ total_cost[1] < 900 THEN Some("medium")
    ELSE IF total_cost # Null /\ total_cost[1] >= 900 THEN Some("large")
    ELSE Null

RescueInputs ==
    UNION {{[columns |-> <<"total_cost">>, rows |-> [i \in 1..n |-> [total_cost |-> cs[i]]]] :
              cs \in [1..n -> CostDom]} : n \in 0..MaxRescueRows}

InitRescue ==
    /\ \E df \in RescueInputs : rescue = [d \in Dialects |-> df]
    /\ df1 = NoDF
    /\ df2 = NoDF
    /\ df3 = NoDF
    /\ col_dict = << >>
    /\ col_order = << >>
    /\ df_joined = NoDF
    /\ pc = "start"
    /\ SaltedJoinNotRun

\* rescue = rescue.withColumn("cost_group", F.when(...)...)
CostGroupPySpark ==
    /\ ~HasColumn(rescue["PySpark"], "cost_group")
    /\ rescue' = [rescue EXCEPT !["PySpark"] =
                     withColumn(@, "cost_group",
                                [i \in DOMAIN @.rows |-> when_otherwise(@.rows[i].total_cost)])]
    /\ UNCHANGED <<df1, df2, df3, col_dict, col_order, df_joined, pc, salted_join_names>>

\* rescue <- rescue %>% sparklyr::mutate(cost_group = dplyr::case_when(...))
CostGroupSparklyr ==
    /\ ~HasColumn(rescue["sparklyr"], "cost_group")
    /\ rescue' = [rescue EXCEPT !["sparklyr"] =
                     withColumn(@, "cost_group",
                                [i \in DOMAIN @.rows |-> case_when(@.rows[i].total_cost)])]
    /\ UNCHANGED <<df1, df2, df3, col_dict, col_order, df_joined, pc, salted_join_names>>

NextRescue == CostGroupPySpark \/ CostGroupSparklyr

SpecRescue == InitRescue /\ [][NextRescue]_vars

\* ------------------------------------------------------------ properties
\* the skewed DataFrame as it was before the salted column was added
Unsalted(df) == drop(df, {"salted_col"})

\* the salted join as one function of its inputs: the three cells composed
salted_join(df, other, n, draws, h) ==
    join(SaltSkewed(df, n, draws), SaltSmall(other, range(n)), "salted_col", h)

KeysOf(df) == {df.rows[i].join_col : i \in DOMAIN df.rows} \ {Null}

Salted(pcs) == pc \in pcs

ExpandedRow(r, s) ==
    [number_col |-> r.number_col,
     salted_col |-> concat3(r.join_col, Some("-"), Some(ToString(s)))]

\* C3: the salted small side holds count(small_df) * salt_count rows: for
\* each original row one row per salt index 0..salt_count-1, none missing,
\* none twice, whatever salt_count is.
SmallSideExplosion ==
    Salted({"small_salted", "done"}) =>
        /\ count(small_df_salted) = count(small_df) * salt_count
        /\ LET pairs == (DOMAIN small_df.rows) \X (0..(salt_count - 1))
               expected == {ExpandedRow(small_df.rows[p[1]], p[2]) : p \in pairs}
           IN  /\ DOMAIN RowBag(small_df_salted) = expected
               /\ \A g \in expected :
                     RowBag(small_df_salted)[g]
                         = Cardinality({p \in pairs : ExpandedRow(small_df.rows[p[1]], p[2]) = g})

\* a small side with fewer rows than salt indices
SmallSideExplosionWitness ==
    /\ pc = "small_salted"
    /\ count(small_df) >= 1
    /\ salt_count > count(small_df)
    /\ count(small_df_salted) > count(small_df)

\* C4: a skewed row whose key is also a key of the small side carries a
\* salted key that one of the rows expanded from that key carries too.
KeyCoverage ==
    Salted({"small_salted", "done"}) =>
        \A i \in DOMAIN skewed_df.rows :
            LET k == skewed_df.rows[i].join_col
            IN  k \in KeysOf(small_df) =>
                    /\ skewed_df.rows[i].salted_col # Null
                    /\ \E j \in DOMAIN small_df_salted.rows :
                          small_df_salted.rows[j].salted_col = skewed_df.rows[i].salted_col
                    /\ \E s \in 0..(salt_count - 1) :
                          skewed_df.rows[i].salted_col = concat3(k, Some("-"), Some(ToString(s)))

\* a skewed row that drew the last salt index and whose key the small side has
KeyCoverageWitness ==
    /\ pc = "small_salted"
    /\ salt_count > 1
    /\ \E i \in DOMAIN skewed_df.rows :
          /\ skewed_df.rows[i].join_col \in KeysOf(small_df)
          /\ skewed_df.rows[i].salted_col
                 = concat3(skewed_df.rows[i].join_col, Some("-"), Some(ToString(salt_count - 1)))

\* C5: salting the skewed side keeps its rows, one for one, and gives each a
\* salted key join_col, "-", s with 0 <= s < salt_count; the salted small side
\* carries every salt index for each of its rows.
SaltIndexInRange ==
    [][ /\ (pc = "joined" /\ pc' = "skew_salted") =>
              /\ count(skewed_df') = count(skewed_df)
              /\ Unsalted(skewed_df') = skewed_df
              /\ skewed_df'.columns = <<"id", "join_col", "salted_col">>
              /\ \A i \in DOMAIN skewed_df'.rows :
                    \E s \in 0..(salt_count - 1) :
                        skewed_df'.rows[i].salted_col
                            = concat3(skewed_df.rows[i].join_col, Some("-"), Some(ToString(s)))
        /\ (pc = "salt_df" /\ pc' = "small_salted") =>
              \A i \in DOMAIN small_df.rows : \A s \in 0..(salt_count - 1) :
                  \E j \in DOMAIN small_df_salted'.rows :
                      small_df_salted'.rows[j] = ExpandedRow(small_df.rows[i], s)
      ]_vars

\* two skewed rows with the same key salted with the first and the last index
SaltIndexInRangeWitness ==
    /\ pc = "small_salted"
    /\ salt_count > 1
    /\ count(small_df) >= 1
    /\ \E i, j \in DOMAIN skewed_df.rows :
          /\ skewed_df.rows[i].join_col # Null
          /\ skewed_df.rows[i].join_col = skewed_df.rows[j].join_col
          /\ skewed_df.rows[i].salted_col
                 = concat3(skewed_df.rows[i].join_col, Some("-"), Some("0"))
          /\ skewed_df.rows[j].salted_col
                 = concat3(skewed_df.rows[j].join_col, Some("-"), Some(ToString(salt_count - 1)))

\* C6 as claimed: the result has the schema of the direct join, the salted key
\* column being dropped from it.
SaltedKeyDropped ==
    pc = "done" =>
        /\ ~HasColumn(salted_join_df, "salted_col")
        /\ HasColumn(salted_join_df, "join_col")
        /\ ColumnSet(salted_join_df) = ColumnSet(joined_df)

\* C6 as amended: the result keeps salted_col, as its first column, beside the
\* columns of the direct join; the salt index column id and the small side's
\* join_col are dropped before the join, so that id and join_col of a result
\* row are those of its skewed row and the salt index shows in salted_col only.
SaltedKeyKept ==
    pc = "done" =>
        /\ small_df_salted.columns = <<"number_col", "salted_col">>
        /\ salted_join_df.columns = <<"salted_col", "id", "join_col", "number_col">>
        /\ ColumnSet(salted_join_df) \ {"salted_col"} = ColumnSet(joined_df)
        /\ \A i \in DOMAIN salted_join_df.rows :
              /\ DOMAIN salted_join_df.rows[i] = ColumnSet(salted_join_df)
              /\ \E j \in DOMAIN skewed_df.rows :
                    Project(salted_join_df.rows[i], {"id", "join_col", "salted_col"})
                        = skewed_df.rows[j]

\* a result row whose salted key ends in a salt index other than its id
SaltedKeyKeptWitness ==
    /\ pc = "done"
    /\ \E i \in DOMAIN salted_join_df.rows :
          /\ salted_join_df.rows[i].number_col # Null
          /\ salted_join_df.rows[i].id = Some(0)
          /\ salted_join_df.rows[i].salted_col
                 = concat3(salted_join_df.rows[i].join_col, Some("-"), Some("1"))

RowsWithKey(df, k) ==
    [columns |-> df.columns, rows |-> SelectSeq(df.rows, LAMBDA r : r.join_col = k)]

\* keys of skewed rows that the direct join leaves unmatched: null, or no key of the small side
UnmatchedSkewedKeys ==
    {skewed_df.rows[i].join_col : i \in DOMAIN skewed_df.rows} \ KeysOf(small_df)

UnmatchedSmallKeys == KeysOf(small_df) \ KeysOf(skewed_df)

EmptySmallSide ==
    (pc = "done" /\ count(small_df) = 0) =>
        /\ how = "inner" => count(salted_join_df) = 0
        /\ how = "left" =>
              /\ count(salted_join_df) = count(skewed_df)
              /\ RowBag(drop(salted_join_df, {"number_col"})) = RowBag(skewed_df)
              /\ \A i \in DOMAIN salted_join_df.rows : salted_join_df.rows[i].number_col = Null

EmptySmallSideWitness ==
    /\ pc = "done"
    /\ count(small_df) = 0
    /\ how = "left"
    /\ salt_count > 1
    /\ count(salted_join_df) > 1

\* sum(number_col) of the rows of one join_col group, nulls skipped
RECURSIVE SumNumberCol(_, _)
SumNumberCol(rows, i) ==
    IF i > Len(rows) THEN 0
    ELSE (IF rows[i].number_col = Null THEN 0 ELSE rows[i].number_col[1])
             + SumNumberCol(rows, i + 1)

GroupSum(df, k) == SumNumberCol(RowsWithKey(df, k).rows, 1)

\* draws in which every row draws the same value k / RandSteps
SameDraws(n, k) == [i \in 1..n |-> <<k, RandSteps>>]

\* C10: the row count of the salted join and its sum of number_col per
\* join_col do not depend on the salt count: whatever salt count and draws the
\* salted join was made with, they are those of the salted join of the same
\* inputs under every salt count n, taken with every row drawing the lowest
\* value and with every row drawing the highest.
SaltCountIndependence ==
    pc = "done" =>
        \A n \in 1..MaxSaltCount : \A d \in {0, RandSteps - 1} :
            LET other == salted_join(Unsalted(skewed_df), small_df, n,
                                     SameDraws(count(skewed_df), d), how)
            IN  /\ count(other) = count(salted_join_df)
                /\ \A k \in KeyDom : GroupSum(other, k) = GroupSum(salted_join_df, k)

\* a salted join under a salt count above 1 with a key matched by two small rows
SaltCountIndependenceWitness ==
    /\ pc = "done"
    /\ salt_count > 1
    /\ \E k \in Keys : GroupSum(salted_join_df, Some(k)) > 2
    /\ \E i \in DOMAIN salted_join_df.rows : salted_join_df.rows[i].number_col = Null

\* the grouped counts the example prints
ExampleCounts ==
    [g \in {[join_col |-> Some(example_small_df.rows[i].join_col[1]),
             number_col |-> example_small_df.rows[i].number_col] : i \in 1..5} |->
        IF g.number_col = Some(1) THEN 100
        ELSE IF g.number_col = Some(2) THEN 900
        ELSE IF g.number_col = Some(3) THEN 9000
        ELSE IF g.number_col = Some(4) THEN 90000
        ELSE 9900000]

\* C9: on the example's ten million rows and five-row mapping, with
\* salt_count 10 and an inner or a left join, the salted join has row_ct rows
\* and its counts by join_col and number_col are A/1 100, B/2 900, C/3 9000,
\* D/4 90000, E/5 9900000, those of the direct join.
ExampleSaltedCounts ==
    pc = "done" =>
        /\ countRuns(salted_join_df) = row_ct
        /\ groupByCountRuns(salted_join_df, {"join_col", "number_col"}) = ExampleCounts
        /\ groupByCountRuns(joined_df, {"join_col", "number_col"}) = ExampleCounts
        /\ countRuns(joined_df) = row_ct

\* the example joined with the rows of E spread over more than one salted key
ExampleSaltedCountsWitness ==
    /\ pc = "done"
    /\ salt_count = example_salt_count
    /\ countRuns(joined_df) = row_ct
    /\ \E i, j \in DOMAIN salted_join_df.rows :
          /\ salted_join_df.rows[i].join_col = Some("E")
          /\ salted_join_df.rows[j].join_col = Some("E")
          /\ salted_join_df.rows[i].salted_col = Some("E-0")
          /\ salted_join_df.rows[j].salted_col = Some("E-9")
          /\ salted_join_df.rows[i].number_col = Some(5)
          /\ salted_join_df.rows[j].number_col = Some(5)

\* C11: the salted join does not depend on which salt index each skewed row
\* drew: ignoring the salted key, its rows are those of the salted join of the
\* same inputs under the same salt count in which every row drew the lowest
\* index and in which every row drew the highest; the small side involves no
\* draw, it holds every salt index 0..salt_count-1 for each of its rows.
SaltAssignmentIndependence ==
    pc = "done" =>
        /\ \A d \in {0, RandSteps - 1} :
              RowBag(Unsalted(salted_join(Unsalted(skewed_df), small_df, salt_count,
                                          SameDraws(count(skewed_df), d), how)))
                  = RowBag(Unsalted(salted_join_df))
        /\ \A i \in DOMAIN small_df.rows : \A s \in 0..(salt_count - 1) :
              \E j \in DOMAIN small_df_salted.rows :
                  small_df_salted.rows[j] = ExpandedRow(small_df.rows[i], s)

\* two skewed rows of one key that drew different salt indices, both matched
SaltAssignmentIndependenceWitness ==
    /\ pc = "done"
    /\ \E i, j \in DOMAIN skewed_df.rows :
          /\ skewed_df.rows[i].join_col = skewed_df.rows[j].join_col
          /\ skewed_df.rows[i].salted_col = Some("A-0")
          /\ skewed_df.rows[j].salted_col = Some("A-1")
    /\ \E i \in DOMAIN small_df.rows : small_df.rows[i].join_col = Some("A")
    /\ count(salted_join_df) >= 2

\* C12: under a fixed seed the cells are deterministic and keep nothing from
\* one run to the next: a second run with the seed and the partitioning of the
\* first, on the same DataFrames, gives every skewed row the salted key it had
\* and returns the same salted join; and the outcome of any run, whatever ran
\* before it, is the salted join of its inputs under the draws of its seed.
SeededRunsReproducible ==
    /\ (/\ Salted({"skew_salted", "salt_df", "small_salted", "done"})
        /\ previous.seed_no = Some(seed_no)
        /\ previous.partitions = Some(partitions))
           => /\ skewed_df = previous.skewed_df
              /\ pc = "done" => salted_join_df = previous.salted_join_df
    /\ pc = "done" =>
           salted_join_df = salted_join(Unsalted(skewed_df), small_df, salt_count,
                                        rand_values[<<seed_no, partitions>>], how)

\* a second run under the seed and partitioning of the first, after draws
\* that sent the two rows to different salt indices
SeededRunsReproducibleWitness ==
    /\ pc = "done"
    /\ previous.seed_no = Some(seed_no)
    /\ previous.partitions = Some(partitions)
    /\ salt_count > 1
    /\ skewed_df.rows[1].salted_col = Some("A-1")
    /\ skewed_df.rows[2].salted_col = Some("A-0")
    /\ count(previous.salted_join_df) = 2

\* the configuration the cells are run under is one the specification accepts
ConfigValid ==
    /\ salt_count >= 1
    /\ how \in SparkJoinTypes
    /\ HasColumn(skewed_df, "join_col")
    /\ HasColumn(small_df, "join_col")

\* C13: under a configuration error (salt count <= 0, unrecognised join
\* type, join_col missing from a DataFrame) no cell of the salted join gets to
\* run: no salted column is added, no salt DataFrame or salted small side is
\* built, and no salted join is returned.
ConfigErrorReportedFirst ==
    ~ConfigValid =>
        /\ pc \in {"start", "joined", "error"}
        /\ ~HasColumn(skewed_df, "salted_col")
        /\ salt_df = NoDF
        /\ small_df_salted = NoDF
        /\ salted_join_df = NoDF

\* C14: when join_col is of a type F.concat cannot take as text, the cell
\* that adds salted_col raises when it is run: skewed_df never gets a
\* salted_col, and no salted small side and no salted join come to exist.
KeyTypeErrorAtTransform ==
    key_type \notin ConcatTypes =>
        /\ pc \in {"start", "joined", "error"}
        /\ ~HasColumn(skewed_df, "salted_col")
        /\ small_df_salted = NoDF
        /\ salted_join_df = NoDF

\* struct keys: the direct join was made, then the salting cell raised
KeyTypeErrorAtTransformWitness ==
    /\ key_type = "struct"
    /\ pc = "error"
    /\ joined_df # NoDF
    /\ count(joined_df) = 2
    /\ job_description = Some("Salted Join")
    /\ ~HasColumn(skewed_df, "salted_col")

KeysPresent(df) == {df.rows[i].join_col : i \in DOMAIN df.rows}

\* the rows of one value of join_col, counted run by run
RowsOfKey(df, k) == SumRunLengths(SelectSeq(df.rows, LAMBDA r : r.join_col = k), 1)

RECURSIVE SumCounts(_, _)
SumCounts(table, groups) ==
    IF groups = {} THEN 0
    ELSE LET g == CHOOSE x \in groups : TRUE
         IN  table[g].count + SumCounts(table, groups \ {g})

\* the pct_of_data column of the table the example prints
ExamplePercentages ==
    [g \in {[join_col |-> Some(k)] : k \in {"A", "B", "C", "D", "E"}} |->
        IF g.join_col = Some("A") THEN Some(1)
        ELSE IF g.join_col = Some("B") THEN Some(9)
        ELSE IF g.join_col = Some("C") THEN Some(90)
        ELSE IF g.join_col = Some("D") THEN Some(900)
        ELSE Some(99000)]

\* one entry per value of join_col present, holding the number of its rows
OneEntryPerKey ==
    /\ DOMAIN skew_profile.table = {[join_col |-> k] : k \in KeysPresent(skewed_df)}
    /\ \A g \in DOMAIN skew_profile.table :
          /\ skew_profile.table[g].count = RowsOfKey(skewed_df, g.join_col)
          /\ skew_profile.table[g].count >= 1
    /\ SumCounts(skew_profile.table, DOMAIN skew_profile.table) = countRuns(skewed_df)

\* the statement of C16 as it stands: each entry's percentage is exactly
\* count / total * 100
SkewProfileExactShares ==
    skew_profile.shown =>
        /\ OneEntryPerKey
        /\ IF skewed_df = example_skewed_df
           THEN \A g \in DOMAIN skew_profile.table :
                    skew_profile.table[g].pct_of_data = ExamplePercentages[g]
           ELSE \A g \in DOMAIN skew_profile.table :
                    /\ skew_profile.table[g].pct_of_data # Null
                    /\ skew_profile.table[g].pct_of_data[1] * countRuns(skewed_df)
                           = skew_profile.table[g].count * 100000

\* C16: the table of the grouped count has exactly one entry per value of
\* join_col present in the DataFrame; the entry holds the number of rows of
\* that value and that number as a percentage of the total, count / total * 100
\* rounded to three decimals (the nearest thousandth, a half going up); on the
\* example it is the table printed.
SkewProfileRoundedShares ==
    skew_profile.shown =>
        /\ OneEntryPerKey
        /\ IF skewed_df = example_skewed_df
           THEN \A g \in DOMAIN skew_profile.table :
                    skew_profile.table[g].pct_of_data = ExamplePercentages[g]
           ELSE \A g \in DOMAIN skew_profile.table :
                    LET t == skew_profile.table[g].pct_of_data
                        c == skew_profile.table[g].count
                        total == countRuns(skewed_df)
                    IN  /\ t # Null
                        /\ 2 * c * 100000 - total < 2 * t[1] * total
                        /\ 2 * t[1] * total <= 2 * c * 100000 + total

\* two keys over three rows: two thirds of the rows is shown as 66.667
SkewProfileRoundedSharesWitness ==
    /\ skew_profile.shown
    /\ countRuns(skewed_df) = 3
    /\ Cardinality(DOMAIN skew_profile.table) = 2
    /\ \E g \in DOMAIN skew_profile.table :
          /\ skew_profile.table[g].count = 2
          /\ skew_profile.table[g].pct_of_data = Some(66667)

\* C17: on a DataFrame without rows the grouped count gives a table
\* without entries: there is no group, so the division by the total of zero
\* is applied to no row and nothing is raised.
EmptySkewProfile ==
    (skew_profile.shown /\ countRuns(skewed_df) = 0) =>
        /\ DOMAIN skew_profile.table = {}
        /\ skew_profile.table = << >>

\* the grouped count was taken of the DataFrame without rows
EmptySkewProfileWitness ==
    /\ skew_profile.shown
    /\ skewed_df = RunsDf(<< >>, << >>)
    /\ DOMAIN skew_profile.table = {}

DiagnosticAdvisory ==
    /\ [][(skew_profile' # skew_profile) =>
             /\ skew_profile'.shown
             /\ UNCHANGED <<skewed_df, small_df, how, salt_count, joined_df, salt_df,
                            small_df_salted, salted_join_df, pc, job_description>>]_vars
    /\ [](/\ (IF HasColumn(skewed_df, "salted_col") THEN Unsalted(skewed_df) ELSE skewed_df)
                 \in SkewedInputs
          /\ pc = "done" =>
                /\ salted_join_df
                       = join(skewed_df, SaltSmall(small_df, range(salt_count)), "salted_col", how)
                /\ RowBag(Unsalted(salted_join_df))
                       = RowBag(join(Unsalted(skewed_df), small_df, "join_col", how)))

\* a salted join with rows, made after the grouped count of two keys was taken
DiagnosticAdvisoryWitness ==
    /\ pc = "done"
    /\ skew_profile.shown
    /\ Cardinality(DOMAIN skew_profile.table) = 2
    /\ count(salted_join_df) = 2
    /\ \E i \in DOMAIN salted_join_df.rows : salted_join_df.rows[i].number_col # Null

\* C20: runs of the cells whose steps are interleaved do not interfere: each
\* run ends with the salted join of its own DataFrames under its own salt
\* count and join type, the rows of its own direct join once salted_col is
\* ignored, as when it runs alone; and a step of one run changes no name of
\* another run.
ConcurrentRunsIndependent ==
    /\ [](\A p \in Invocations :
             /\ pc[p] \in {"skew_salted", "salt_df", "small_salted", "done"} =>
                   /\ Unsalted(skewed_df[p]) \in ConcurrentSkewedInputs
                   /\ \A i \in DOMAIN skewed_df[p].rows :
                         \E s \in 0..(salt_count[p] - 1) :
                             skewed_df[p].rows[i].salted_col
                                 = concat3(skewed_df[p].rows[i].join_col, Some("-"),
                                           Some(ToString(s)))
             /\ pc[p] = "done" =>
                   /\ salted_join_df[p]
                          = join(skewed_df[p], SaltSmall(small_df[p], range(salt_count[p])),
                                 "salted_col", how[p])
                   /\ RowBag(Unsalted(salted_join_df[p]))
                          = RowBag(join(Unsalted(skewed_df[p]), small_df[p], "join_col", how[p])))
    /\ [][\A p \in Invocations :
             pc'[p] = pc[p] =>
                 /\ skewed_df'[p] = skewed_df[p]
                 /\ joined_df'[p] = joined_df[p]
                 /\ salt_df'[p] = salt_df[p]
                 /\ small_df_salted'[p] = small_df_salted[p]
                 /\ salted_join_df'[p] = salted_join_df[p]]_vars

\* both runs done on the same DataFrames, under different salt counts and
\* join types, their first rows on different salted keys
ConcurrentRunsIndependentWitness ==
    /\ \A p \in Invocations : pc[p] = "done"
    /\ salt_count[1] # salt_count[2]
    /\ how[1] # how[2]
    /\ Unsalted(skewed_df[1]) = Unsalted(skewed_df[2])
    /\ skewed_df[1].rows[1].salted_col # skewed_df[2].rows[1].salted_col
    /\ count(salted_join_df[1]) = 2
    /\ count(salted_join_df[2]) = 2

\* C21 as stated: after the salted join both datasets have the columns they
\* had before it (no salted column) and no derived DataFrame is left behind.
SaltedJoinLeavesNoTrace ==
    pc = "done" =>
        /\ ~HasColumn(skewed_df, "salted_col")
        /\ salt_df = NoDF
        /\ small_df_salted = NoDF

\* C21: the cells of the salted join never change small_df, and they keep
\* every row of skewed_df with its id and join_col; what they leave behind is
\* the salted key column on skewed_df and the names salt_df and
\* small_df_salted, still bound after the join.
SaltedJoinKeepsInputRows ==
    /\ [][/\ small_df' = small_df
          /\ Unsalted(skewed_df') = Unsalted(skewed_df)]_vars
    /\ [](pc = "done" =>
            /\ HasColumn(skewed_df, "salted_col")
            /\ Unsalted(skewed_df).columns = <<"id", "join_col">>
            /\ small_df.columns = <<"join_col", "number_col">>
            /\ salt_df = range(salt_count)
            /\ small_df_salted = SaltSmall(small_df, salt_df))

SaltedJoinKeepsInputRowsWitness ==
    /\ pc = "done"
    /\ count(skewed_df) = 2
    /\ count(small_df) = 2
    /\ salt_count = 2
    /\ count(small_df_salted) = 4
    /\ count(salted_join_df) = 2

\* the rows of small_df equal to r
Multiplicity(r) == Cardinality({i \in DOMAIN small_df.rows : small_df.rows[i] = r})

\* output rows of the direct join that hold r with nulls on the skewed side
UnmatchedDirect(r) ==
    Cardinality({j \in DOMAIN joined_df.rows :
                    /\ joined_df.rows[j].id = Null
                    /\ joined_df.rows[j].join_col = r.join_col
                    /\ joined_df.rows[j].number_col = r.number_col})

\* output rows of the salted join that hold a salted copy of r with nulls on
\* the skewed side
UnmatchedSalted(r) ==
    Cardinality({j \in DOMAIN salted_join_df.rows :
                    /\ salted_join_df.rows[j].id = Null
                    /\ salted_join_df.rows[j].number_col = r.number_col
                    /\ \E s \in 0..(salt_count - 1) :
                          salted_join_df.rows[j].salted_col = ExpandedRow(r, s).salted_col})

\* C22: under a right or full outer join on the salted keys, a row of the
\* small side whose key no skewed row has (a null key included) comes out
\* salt_count times with nulls on the skewed side, where the direct outer join
\* holds it once: unmatched rows are over-counted by the factor salt_count.
OuterJoinOverCount ==
    pc = "done" =>
        \A i \in DOMAIN small_df.rows :
            LET r == small_df.rows[i]
            IN  r.join_col \notin KeysOf(skewed_df) =>
                    /\ UnmatchedDirect(r) = Multiplicity(r)
                    /\ UnmatchedSalted(r) = salt_count * UnmatchedDirect(r)

OuterJoinOverCountWitness ==
    /\ pc = "done"
    /\ salt_count = 2
    /\ count(skewed_df) = 2
    /\ \E i \in DOMAIN small_df.rows :
          /\ small_df.rows[i].join_col = Some("B")
          /\ Some("B") \notin KeysOf(skewed_df)
          /\ UnmatchedDirect(small_df.rows[i]) = 1
          /\ UnmatchedSalted(small_df.rows[i]) = 2
    /\ count(salted_join_df) > count(joined_df)

\* C29: under a right or full outer join on the salted keys, a row of the
\* small side whose key at least one skewed row has comes out in no row with
\* nulls on the skewed side, whichever salt indices the skewed rows drew.
MatchedRowsNeverUnmatched ==
    pc = "done" =>
        \A i \in DOMAIN small_df.rows :
            small_df.rows[i].join_col \in KeysOf(skewed_df) =>
                UnmatchedSalted(small_df.rows[i]) = 0

\* C23: the columns other than the key pass through the salted join with the
\* values they had: the skewed-side transform keeps id and join_col of every
\* row, the small-side transform keeps number_col of every row in each of its
\* salt_count copies, and every output row of the join holds the id and
\* join_col of one skewed row and the number_col of a small-side row with
\* that key (null when a left join found none), one output row per such pair.
NonKeyColumnsPassThrough ==
    /\ [][pc = "joined" =>
            /\ Len(skewed_df'.rows) = Len(skewed_df.rows)
            /\ \A i \in DOMAIN skewed_df.rows :
                  /\ skewed_df'.rows[i].id = skewed_df.rows[i].id
                  /\ skewed_df'.rows[i].join_col = skewed_df.rows[i].join_col]_vars
    /\ [](Salted({"small_salted", "done"}) =>
            \A i \in DOMAIN small_df.rows : \A s \in 0..(salt_count - 1) :
                small_df_salted.rows[(i - 1) * salt_count + s + 1].number_col
                    = small_df.rows[i].number_col)
    /\ [](pc = "done" =>
            /\ \A k \in DOMAIN salted_join_df.rows :
                  LET o == salted_join_df.rows[k]
                  IN  /\ \E i \in DOMAIN skewed_df.rows :
                            skewed_df.rows[i] = [id |-> o.id, join_col |-> o.join_col,
                                                 salted_col |-> o.salted_col]
                      /\ IF o.number_col = Null
                         THEN o.join_col \notin KeysOf(small_df)
                         ELSE \E j \in DOMAIN small_df.rows :
                                  /\ small_df.rows[j].join_col = o.join_col
                                  /\ small_df.rows[j].number_col = o.number_col
            /\ \A i \in DOMAIN skewed_df.rows : \A j \in DOMAIN small_df.rows :
                  KeysMatch(skewed_df.rows[i], small_df.rows[j], "join_col") =>
                      \E k \in DOMAIN salted_join_df.rows :
                          /\ salted_join_df.rows[k].id = skewed_df.rows[i].id
                          /\ salted_join_df.rows[k].join_col = skewed_df.rows[i].join_col
                          /\ salted_join_df.rows[k].number_col = small_df.rows[j].number_col)

NonKeyColumnsPassThroughWitness ==
    /\ pc = "done"
    /\ salt_count = 2
    /\ count(salted_join_df) = 2
    /\ salted_join_df.rows[1].id = Some(0)
    /\ salted_join_df.rows[1].join_col = Some("A")
    /\ salted_join_df.rows[1].number_col = Some(1)
    /\ salted_join_df.rows[2].id = Some(1)
    /\ salted_join_df.rows[2].join_col = Some("B")
    /\ salted_join_df.rows[2].number_col = Some(2)

\* the draws of the skewed-side cell of this run
DrawsOfRun == rand_values[<<seed_no, partitions>>]

\* C24: the two transforms are independent. In whatever order the cells of
\* the two sides run, the cell of one side leaves the names of the other side
\* alone, the salted skewed side is the same function of skewed_df and the
\* draws, the salted small side the same function of small_df and salt_count,
\* and the join runs only once both are there and gives the salted join of
\* the inputs.
TransformsIndependent ==
    /\ [][/\ skewed_df' # skewed_df =>
                UNCHANGED <<small_df, salt_df, small_df_salted, salted_join_df>>
          /\ (salt_df' # salt_df \/ small_df_salted' # small_df_salted) =>
                UNCHANGED <<skewed_df, rand_values, salted_join_df>>
          /\ salted_join_df' # salted_join_df =>
                /\ Ran("skewed_df") /\ Ran("small_df_salted")
                /\ UNCHANGED <<skewed_df, small_df, salt_df, small_df_salted>>]_vars
    /\ [](Ran("skewed_df") =>
            skewed_df = SaltSkewed(Unsalted(skewed_df), salt_count, DrawsOfRun))
    /\ [](Ran("small_df_salted") =>
            small_df_salted = SaltSmall(small_df, range(salt_count)))
    /\ [](Ran("salted_join_df") =>
            /\ pc[Len(pc)] = "salted_join_df"
            /\ salted_join_df = salted_join(Unsalted(skewed_df), small_df, salt_count,
                                             DrawsOfRun, how))

\* the small side was salted first, the join has run
TransformsIndependentWitness ==
    /\ pc = <<"salt_df", "small_df_salted", "skewed_df", "salted_join_df">>
    /\ salt_count = 2
    /\ count(skewed_df) = 2
    /\ count(small_df_salted) = 4
    /\ count(salted_join_df) = 2

\* the type col_dict records for column c
TypeIn(cd, c) == cd[CHOOSE i \in DOMAIN cd : cd[i][1] = c][2]

\* after is before with the missing columns of cd added as null columns
AddedEmptyColumns(before, after, cd) ==
    LET named == {cd[i][1] : i \in DOMAIN cd}
    IN  /\ ColumnSet(after) = ColumnSet(before) \cup named
        /\ Len(after.columns) = Cardinality(ColumnSet(after))
        /\ \A c \in named \ ColumnSet(before) :
              /\ after.types[c] = TypeIn(cd, c)
              /\ \A r \in DOMAIN after.rows : after.rows[r][c] = Null
        /\ \A i \in DOMAIN before.columns :
              /\ after.columns[i] = before.columns[i]
              /\ after.types[before.columns[i]] = before.types[before.columns[i]]
        /\ Len(after.rows) = Len(before.rows)
        /\ \A r \in DOMAIN before.rows : \A c \in ColumnSet(before) :
              after.rows[r][c] = before.rows[r][c]
        /\ add_empty_columns(after, cd) = after

\* C25: add_empty_columns(df, col_dict) returns df with every column named in
\* col_dict: the missing ones added as all-null columns of the type col_dict
\* records, the columns df had kept with their values, the number of rows
\* unchanged; applied to its own result it changes nothing.
AddEmptyColumnsCompletes ==
    [][pc = "col_dict" =>
          /\ AddedEmptyColumns(df1, df1', col_dict)
          /\ AddedEmptyColumns(df2, df2', col_dict)
          /\ AddedEmptyColumns(df3, df3', col_dict)]_vars

AddEmptyColumnsCompletesWitness ==
    /\ pc = "added"
    /\ count(df2) = 2
    /\ df2.columns = <<"event", "tournament_year", "champion">>
    /\ df2.rows[2].champion = Null
    /\ df2.rows[2].event # Null
    /\ count(df3) = 1
    /\ df3.columns = <<"champion", "event", "tournament_year">>
    /\ df3.types["tournament_year"] = "int"
    /\ df3.rows[1].event = Null
    /\ df3.rows[1].tournament_year = Null
    /\ df1.columns = <<"tournament_year", "event", "champion">>

\* the rows of df_joined from row `from` on hold the rows of df, every value
\* under the name it has in df and with the type it has in df
HeldByName(df, from) ==
    \A r \in DOMAIN df.rows : \A c \in ColumnSet(df) :
        /\ df_joined.types[c] = df.types[c]
        /\ df_joined.rows[from + r][c] = df.rows[r][c]

\* the rows of df_joined from row `from` on hold the rows of df, the value of
\* column i of df under the name of column i of df_joined
HeldByPosition(df, from) ==
    \A r \in DOMAIN df.rows : \A i \in DOMAIN df.columns :
        df_joined.rows[from + r][df_joined.columns[i]]
            = Cast(df.rows[r][df.columns[i]], df.types[df.columns[i]],
                   df_joined.types[df_joined.columns[i]])

\* C26: union puts column i of one DataFrame under column i of the other,
\* whatever the names. With every DataFrame selected in col_order after
\* add_empty_columns, the union has the columns in col_order, one row per row
\* of df1, df2 and df3, and every value under the name and with the type it
\* has in its own DataFrame, whatever order the columns of the inputs had.
UnionAfterSelectByName ==
    /\ pc = "by_position" =>
          /\ df_joined.columns = df1.columns
          /\ count(df_joined) = count(df1) + count(df2) + count(df3)
          /\ HeldByPosition(df1, 0)
          /\ HeldByPosition(df2, count(df1))
          /\ HeldByPosition(df3, count(df1) + count(df2))
    /\ pc = "done" =>
          /\ df_joined.columns = col_order
          /\ col_order = keys(col_dict)
          /\ count(df_joined) = count(df1) + count(df2) + count(df3)
          /\ HeldByName(df1, 0)
          /\ HeldByName(df2, count(df1))
          /\ HeldByName(df3, count(df1) + count(df2))

UnionAfterSelectByNameWitness ==
    /\ pc = "done"
    /\ col_order = <<"champion", "tournament_year", "event">>
    /\ df1.columns = <<"tournament_year", "event", "champion">>
    /\ df2.columns = <<"event", "tournament_year", "champion">>
    /\ df3.columns = <<"tournament_year", "champion", "event">>
    /\ count(df_joined) = 6
    /\ df_joined.rows[1] = [champion |-> ValueAt(1, 1, "champion"),
                            tournament_year |-> ValueAt(1, 1, "tournament_year"),
                            event |-> ValueAt(1, 1, "event")]
    /\ df_joined.rows[4] = [champion |-> Null,
                            tournament_year |-> ValueAt(2, 2, "tournament_year"),
                            event |-> ValueAt(2, 2, "event")]
    /\ df_joined.rows[6] = [champion |-> Null,
                            tournament_year |-> ValueAt(3, 2, "tournament_year"),
                            event |-> Null]

\* the salted key of key k under salt index s
SaltedKey(k, s) == concat3(k, Some("-"), CastString(Some(s)))

\* C27: salted keys are collision-free, also for keys that hold the delimiter
\* or digits: every pair of a key and a salt index, of one or of two digits,
\* has a salted key of its own;
\* every salted key of either side is the salted key of its row's own key
\* under one salt index; and the join on the salted key gives a skewed row
\* the number_col of small-side rows of its own key only.
SaltedKeysCollisionFree ==
    /\ Cardinality({SaltedKey(Some(k), s) : k \in DelimiterKeys, s \in 0..MaxSaltIndex})
          = Cardinality(DelimiterKeys) * (MaxSaltIndex + 1)
    /\ Salted({"skew_salted", "salt_df", "small_salted", "done"}) =>
          \A i \in DOMAIN skewed_df.rows :
              skewed_df.rows[i].salted_col
                  \in {SaltedKey(skewed_df.rows[i].join_col, s) : s \in 0..(salt_count - 1)}
    /\ Salted({"small_salted", "done"}) =>
          \A i \in DOMAIN small_df.rows : \A s \in 0..(salt_count - 1) :
              small_df_salted.rows[(i - 1) * salt_count + s + 1].salted_col
                  = SaltedKey(small_df.rows[i].join_col, s)
    /\ pc = "done" =>
          \A k \in DOMAIN salted_join_df.rows :
              LET o == salted_join_df.rows[k]
              IN  o.number_col # Null =>
                      \E j \in DOMAIN small_df.rows :
                          /\ small_df.rows[j].join_col = o.join_col
                          /\ small_df.rows[j].number_col = o.number_col

\* a skewed row with key A and salted key A-1 beside small-side rows with the
\* keys A-1 and A: the row holds the number of the small-side row with key A
SaltedKeysCollisionFreeWitness ==
    /\ pc = "done"
    /\ salt_count = 2
    /\ count(small_df) = 2
    /\ small_df.rows[1].join_col = Some("A-1")
    /\ small_df.rows[2].join_col = Some("A")
    /\ \E k \in DOMAIN salted_join_df.rows :
          /\ salted_join_df.rows[k].join_col = Some("A")
          /\ salted_join_df.rows[k].salted_col = Some("A-1")
          /\ salted_join_df.rows[k].number_col = Some(2)

\* C28: a skewed row whose join key is null matches no row in the salted
\* join, as in the direct join: it comes out without a number_col, whatever
\* the salt indices are, in the PySpark cells and in the sparklyr cells.
NullKeysNeverMatch ==
    pc = "done" =>
        \A k \in DOMAIN salted_join_df.rows :
            salted_join_df.rows[k].join_col = Null =>
                salted_join_df.rows[k].number_col = Null

\* small below 300, medium from 300 up to but not including 900, large
\* otherwise, and no group for a null total_cost
CostGroupOf(total_cost) ==
    IF total_cost = Null THEN Null
    ELSE IF total_cost[1] < 300 THEN Some("small")
    ELSE IF total_cost[1] < 900 THEN Some("medium")
    ELSE Some("large")

\* C30: the PySpark and the sparklyr cost_group agree for every total_cost:
\* both give small below 300, medium from 300 up to but not including 900 and
\* large otherwise, so only a null total_cost has a null cost_group.
CostGroupsAgree ==
    \A d \in Dialects :
        HasColumn(rescue[d], "cost_group") =>
            \A i \in DOMAIN rescue[d].rows :
                rescue[d].rows[i].cost_group = CostGroupOf(rescue[d].rows[i].total_cost)

====
